---- MODULE Spec2Model ----
(***************************************************************************)
(* Model of the teen-poll backend (src/backend/main.py): the relational    *)
(* store (responses_18, checkbox_responses_18, other_responses_18,         *)
(* users_18, user_block_progress_18), the three write endpoints, the two   *)
(* read endpoints that derive results from the store, and the two helpers  *)
(* that decide block completion.                                           *)
(*                                                                         *)
(* A table is a bag of rows (SQL tables are multisets; the serial id has   *)
(* no role in any query).  SQL NULL / Python None is the value NULL for    *)
(* strings, 0 for the nullable integers (block, year_of_birth) and <<>>    *)
(* for free text.  Time is counted in ticks of 30 seconds.                 *)
(* Floating-point weights are exact rationals over the denominator Scale;  *)
(* round(count, 2) yields hundredths.                                      *)
(* The process-local session_responses cache (main.py:379-388) is not part *)
(* of the store and is read by no query; it is left out.                   *)
(***************************************************************************)
EXTENDS Integers, Sequences, FiniteSets, Bags, TLC

VARIABLES
  now,                    \* the database clock, NOW()
  responses_18,           \* bag of single-select vote rows
  checkbox_responses_18,  \* bag of multi-select vote rows
  other_responses_18,     \* bag of free-text rows
  users_18,               \* set of user rows (uuid is the key)
  user_block_progress_18, \* set of block-progress rows
  ret,                    \* the response of the last request
  txns                    \* the open transaction of each connection

vars == <<now, responses_18, checkbox_responses_18, other_responses_18,
          users_18, user_block_progress_18, ret, txns>>

----------------------------------------------------------------------------
(* Bounds of the model *)

MaxTime == 3
MaxRows == 2
MaxTallyRows == 3

(* Cooldown periods, config.py: both '1 minute', in ticks of 30 seconds *)
BLOCK_COOLDOWN == 2
QUESTION_COOLDOWN == 2

NULL == "NULL"

----------------------------------------------------------------------------
(* Seeded, read-only tables.  block 0 is the NULL block. *)

questions_18 ==
  { [question_id |-> "Q1", category_id |-> 1, block |-> 1, check_box |-> FALSE],
    [question_id |-> "Q2", category_id |-> 1, block |-> 1, check_box |-> TRUE],
    [question_id |-> "Q3", category_id |-> 2, block |-> 1, check_box |-> FALSE],
    [question_id |-> "Q4", category_id |-> 2, block |-> 2, check_box |-> FALSE],
    [question_id |-> "Q5", category_id |-> 2, block |-> 0, check_box |-> FALSE] }

options_18 ==
  { [question_id |-> "Q1", option_code |-> "A"],
    [question_id |-> "Q1", option_code |-> "B"],
    [question_id |-> "Q1", option_code |-> "OTHER"],
    [question_id |-> "Q2", option_code |-> "A"],
    [question_id |-> "Q2", option_code |-> "B"],
    [question_id |-> "Q2", option_code |-> "OTHER"],
    [question_id |-> "Q3", option_code |-> "A"],
    [question_id |-> "Q4", option_code |-> "A"],
    [question_id |-> "Q5", option_code |-> "A"] }

Categories == {1, 2, 3}
Blocks == {0, 1, 2}
QuestionIds == {q.question_id : q \in questions_18}

\* The blocks table is imported from its own file: category 2 has its two
\* blocks listed, category 1 has none listed (its block is known from the
\* questions only), category 3 has neither questions nor blocks.
blocks_18 ==
  { [category_id |-> 2, block_number |-> 1],
    [category_id |-> 2, block_number |-> 2] }

\* the questions with is_start_question = TRUE
start_questions == {"Q1"}

\* the request value 'all' (or no value) of a category parameter, and the
\* absent block parameter
ALL == 0
NoBlock == 0

----------------------------------------------------------------------------
(* The store, and helpers shared by the handlers *)

Store == [responses_18 |-> responses_18,
          checkbox_responses_18 |-> checkbox_responses_18,
          other_responses_18 |-> other_responses_18,
          users_18 |-> users_18,
          user_block_progress_18 |-> user_block_progress_18]

\* Python truthiness of an optional string / integer
Truthy(x) == x # NULL /\ x # ""
TruthyInt(n) == n # 0

\* created_at > NOW() - INTERVAL '<cooldown>'
InWindow(ts, t, cooldown) == ts > t - cooldown

Rows(table) == BagToSet(table)
Insert(table, row) == table (+) SetToBag({row})

\* COUNT(*) of the rows of the table that are in S
RECURSIVE copies(_, _)
copies(table, S) ==
  IF S = {} THEN 0
  ELSE LET r == CHOOSE x \in S : TRUE
       IN CopiesIn(r, table) + copies(table, S \ {r})

RowCount(db) == BagCardinality(db.responses_18)
                + BagCardinality(db.checkbox_responses_18)
                + BagCardinality(db.other_responses_18)

\* SELECT id FROM options_18 WHERE question_id = :question_id AND option_code = :option_code
option_exists(question_id, option_code) ==
  \E o \in options_18 : o.question_id = question_id /\ o.option_code = option_code

\* SELECT * FROM <table> WHERE uuid = :uuid AND question_id = :qid
\*   AND created_at > NOW() - INTERVAL QUESTION_COOLDOWN
\* (uuid = NULL is never true in SQL)
recent_vote_short_window(table, uuid, qid, t) ==
  \E r \in Rows(table) :
    /\ uuid # NULL
    /\ r.uuid = uuid
    /\ r.question_id = qid
    /\ InWindow(r.created_at, t, QUESTION_COOLDOWN - 1)
recent_vote_no_window(table, uuid, qid, t) ==
  \E r \in Rows(table) : uuid # NULL /\ r.uuid = uuid /\ r.question_id = qid
recent_vote(table, uuid, qid, t) ==
  \E r \in Rows(table) :
    /\ uuid # NULL
    /\ r.uuid = uuid
    /\ r.question_id = qid
    /\ InWindow(r.created_at, t, QUESTION_COOLDOWN)

\* a user creation that overwrites the row of an existing user
ensure_user_upsert(users, uuid, year_of_birth, referred_by) ==
  IF Truthy(uuid) /\ TruthyInt(year_of_birth)
  THEN {u \in users : u.uuid # uuid}
         \cup {[uuid |-> uuid, year_of_birth |-> year_of_birth,
                referred_by |-> IF Truthy(referred_by)
                                   /\ (\E u \in users : u.uuid = referred_by)
                                THEN referred_by ELSE NULL]}
  ELSE users

\* a user creation that stores the referrer without looking it up
ensure_user_unverified(users, uuid, year_of_birth, referred_by) ==
  IF Truthy(uuid) /\ TruthyInt(year_of_birth) /\ ~\E u \in users : u.uuid = uuid
  THEN users \cup {[uuid |-> uuid, year_of_birth |-> year_of_birth,
                    referred_by |-> IF Truthy(referred_by) THEN referred_by ELSE NULL]}
  ELSE users

\* Lazy user creation with the optional referral link
ensure_user(users, uuid, year_of_birth, referred_by) ==
  IF Truthy(uuid) /\ TruthyInt(year_of_birth)
  THEN IF \E u \in users : u.uuid = uuid
       THEN users
       ELSE IF Truthy(referred_by) /\ (\E u \in users : u.uuid = referred_by)
            THEN users \cup {[uuid |-> uuid, year_of_birth |-> year_of_birth,
                              referred_by |-> referred_by]}
            ELSE users \cup {[uuid |-> uuid, year_of_birth |-> year_of_birth,
                              referred_by |-> NULL]}
  ELSE users

\* Block completion: every question of (category, block) has a row of the user
\* in the table of its type; no question at all means not complete.
all_block_questions_answered_any_table(db, uuid, category_id, block) ==
  LET qid_types == {q \in questions_18 :
                      block # 0 /\ q.category_id = category_id /\ q.block = block}
      answered == {q \in qid_types :
                     \E r \in Rows(db.checkbox_responses_18) \cup Rows(db.responses_18) :
                       uuid # NULL /\ r.uuid = uuid /\ r.question_id = q.question_id}
  IN IF qid_types = {} THEN FALSE ELSE qid_types = answered
\* a completion test that is content with one answered question
all_block_questions_answered_some(db, uuid, category_id, block) ==
  LET qid_types == {q \in questions_18 :
                      block # 0 /\ q.category_id = category_id /\ q.block = block}
      answered == {q \in qid_types :
                     IF q.check_box
                     THEN \E r \in Rows(db.checkbox_responses_18) :
                            uuid # NULL /\ r.uuid = uuid /\ r.question_id = q.question_id
                     ELSE \E r \in Rows(db.responses_18) :
                            uuid # NULL /\ r.uuid = uuid /\ r.question_id = q.question_id}
  IN answered # {}
\* a completion test that accepts a free-text row as the answer to a question
all_block_questions_answered_with_other(db, uuid, category_id, block) ==
  LET qid_types == {q \in questions_18 :
                      block # 0 /\ q.category_id = category_id /\ q.block = block}
      answered == {q \in qid_types :
                     \E r \in (IF q.check_box THEN Rows(db.checkbox_responses_18)
                               ELSE Rows(db.responses_18))
                              \cup Rows(db.other_responses_18) :
                       uuid # NULL /\ r.uuid = uuid /\ r.question_id = q.question_id}
  IN IF qid_types = {} THEN FALSE ELSE qid_types = answered
all_block_questions_answered(db, uuid, category_id, block) ==
  LET qid_types == {q \in questions_18 :
                      block # 0 /\ q.category_id = category_id /\ q.block = block}
      answered == {q \in qid_types :
                     IF q.check_box
                     THEN \E r \in Rows(db.checkbox_responses_18) :
                            uuid # NULL /\ r.uuid = uuid /\ r.question_id = q.question_id
                     ELSE \E r \in Rows(db.responses_18) :
                            uuid # NULL /\ r.uuid = uuid /\ r.question_id = q.question_id}
  IN IF qid_types = {} THEN FALSE ELSE qid_types = answered

\* INSERT ... ON CONFLICT (uuid, category_id, block) DO UPDATE SET completed_at = NOW()
mark_block_completed_do_nothing(progress, uuid, category_id, block, t) ==
  IF \E p \in progress : p.uuid = uuid /\ p.category_id = category_id /\ p.block = block
  THEN progress
  ELSE progress \cup {[uuid |-> uuid, category_id |-> category_id, block |-> block,
                       completed_at |-> t]}
mark_block_completed(progress, uuid, category_id, block, t) ==
  {p \in progress : ~(p.uuid = uuid /\ p.category_id = category_id /\ p.block = block)}
    \cup {[uuid |-> uuid, category_id |-> category_id, block |-> block,
           completed_at |-> t]}

\* The tail of both vote handlers: look the question up and record the block
\* as completed when the user has answered all of it.
progress_after_vote_newly(db, uuid, qid, t) ==
  LET qinfos == {q \in questions_18 : q.question_id = qid}
  IN IF qinfos = {} THEN db.user_block_progress_18
     ELSE LET qinfo == CHOOSE q \in qinfos : TRUE
          IN IF Truthy(uuid) /\ qinfo.block # 0
                /\ all_block_questions_answered(db, uuid, qinfo.category_id, qinfo.block)
                /\ ~\E p \in db.user_block_progress_18 :
                      p.uuid = uuid /\ p.category_id = qinfo.category_id
                      /\ p.block = qinfo.block
             THEN mark_block_completed(db.user_block_progress_18, uuid,
                                       qinfo.category_id, qinfo.block, t)
             ELSE db.user_block_progress_18
progress_after_vote(db, uuid, qid, t) ==
  LET qinfos == {q \in questions_18 : q.question_id = qid}
  IN IF qinfos = {} THEN db.user_block_progress_18
     ELSE LET qinfo == CHOOSE q \in qinfos : TRUE
          IN IF Truthy(uuid) /\ qinfo.block # 0
                /\ all_block_questions_answered(db, uuid, qinfo.category_id, qinfo.block)
             THEN mark_block_completed(db.user_block_progress_18, uuid,
                                       qinfo.category_id, qinfo.block, t)
             ELSE db.user_block_progress_18

\* A request's outcome becomes the state: the transaction commits and the
\* response is returned.  cap bounds the rows of the store.
Commit(r, cap) ==
  /\ RowCount(r.store) <= cap
  /\ responses_18' = r.store.responses_18
  /\ checkbox_responses_18' = r.store.checkbox_responses_18
  /\ other_responses_18' = r.store.other_responses_18
  /\ users_18' = r.store.users_18
  /\ user_block_progress_18' = r.store.user_block_progress_18
  /\ ret' = r.ret
  /\ UNCHANGED <<now, txns>>

----------------------------------------------------------------------------
(* POST /api/vote *)

vote_row(vote, t) ==
  IF Truthy(vote.uuid)
  THEN [question_id |-> vote.question_id, option_id |-> vote.option_code,
        uuid |-> vote.uuid, option_code |-> vote.option_code, created_at |-> t]
  ELSE [question_id |-> vote.question_id, option_id |-> vote.option_code,
        uuid |-> NULL, option_code |-> NULL, created_at |-> t]

\* a handler whose connection commits what was written before the failure
submit_vote_txn_no_rollback(db, t, vote) ==
  IF recent_vote(db.responses_18, vote.uuid, vote.question_id, t)
  THEN [store |-> db,
        ret |-> [op |-> "submit_vote", status |-> "already_voted", http |-> 200]]
  ELSE LET db1 == [db EXCEPT !.users_18 =
                     ensure_user(@, vote.uuid, vote.year_of_birth, vote.referred_by)]
       IN IF vote.option_code = "OTHER"
          THEN [store |-> db1,
                ret |-> [op |-> "submit_vote", status |-> "other_needed", http |-> 200]]
          ELSE IF ~option_exists(vote.question_id, vote.option_code)
          THEN [store |-> db1,
                ret |-> [op |-> "submit_vote", status |-> "error", http |-> 500]]
          ELSE LET db2 == [db1 EXCEPT !.responses_18 = Insert(@, vote_row(vote, t))]
                   db3 == [db2 EXCEPT !.user_block_progress_18 =
                             progress_after_vote(db2, vote.uuid, vote.question_id, t)]
               IN [store |-> db3,
                   ret |-> [op |-> "submit_vote", status |-> "success", http |-> 200]]

submit_vote_txn(db, t, vote) ==
  IF recent_vote(db.responses_18, vote.uuid, vote.question_id, t)
  THEN [store |-> db,
        ret |-> [op |-> "submit_vote", status |-> "already_voted", http |-> 200]]
  ELSE LET db1 == [db EXCEPT !.users_18 =
                     ensure_user(@, vote.uuid, vote.year_of_birth, vote.referred_by)]
       IN IF vote.option_code = "OTHER"
          THEN [store |-> db1,
                ret |-> [op |-> "submit_vote", status |-> "other_needed", http |-> 200]]
          ELSE IF ~option_exists(vote.question_id, vote.option_code)
          THEN \* HTTPException(400) is caught by "except Exception" and re-raised
               \* as 500; engine.begin() rolls the transaction back
               [store |-> db,
                ret |-> [op |-> "submit_vote", status |-> "error", http |-> 500]]
          ELSE LET db2 == [db1 EXCEPT !.responses_18 = Insert(@, vote_row(vote, t))]
                   db3 == [db2 EXCEPT !.user_block_progress_18 =
                             progress_after_vote(db2, vote.uuid, vote.question_id, t)]
               IN [store |-> db3,
                   ret |-> [op |-> "submit_vote", status |-> "success", http |-> 200]]

submit_vote(vote, cap) == Commit(submit_vote_txn(Store, now, vote), cap)

----------------------------------------------------------------------------
(* POST /api/checkbox-vote *)

\* str.strip() on a text given as a sequence of characters
RECURSIVE lstrip(_)
lstrip(s) == IF s # <<>> /\ Head(s) = " " THEN lstrip(Tail(s)) ELSE s
RECURSIVE rstrip(_)
rstrip(s) == IF s # <<>> /\ s[Len(s)] = " " THEN rstrip(SubSeq(s, 1, Len(s) - 1)) ELSE s
strip(s) == rstrip(lstrip(s))

\* an insert loop that ends at the first code that resolves to no option
RECURSIVE insert_checkbox_rows_until_unresolved(_, _, _, _, _)
insert_checkbox_rows_until_unresolved(table, question_id, uuid, codes, t) ==
  IF codes = <<>> \/ ~option_exists(question_id, Head(codes)) THEN table
  ELSE insert_checkbox_rows_until_unresolved(
         Insert(table, [question_id |-> question_id, option_id |-> Head(codes),
                        uuid |-> uuid, option_code |-> Head(codes),
                        created_at |-> t]),
         question_id, uuid, Tail(codes), t)

\* one INSERT INTO checkbox_responses_18 per code that resolves to an option
RECURSIVE insert_checkbox_rows(_, _, _, _, _)
insert_checkbox_rows(table, question_id, uuid, codes, t) ==
  IF codes = <<>> THEN table
  ELSE insert_checkbox_rows(
         IF option_exists(question_id, Head(codes))
         THEN Insert(table, [question_id |-> question_id, option_id |-> Head(codes),
                             uuid |-> uuid, option_code |-> Head(codes),
                             created_at |-> t])
         ELSE table,
         question_id, uuid, Tail(codes), t)

\* a test that accepts a text of blanks
wants_other_row_unstripped(vote) ==
  /\ \E i \in 1..Len(vote.option_codes) : vote.option_codes[i] = "OTHER"
  /\ vote.other_text # <<>>

\* 'OTHER' in vote.option_codes and vote.other_text and vote.other_text.strip()
wants_other_row(vote) ==
  /\ \E i \in 1..Len(vote.option_codes) : vote.option_codes[i] = "OTHER"
  /\ vote.other_text # <<>>
  /\ strip(vote.other_text) # <<>>

submit_checkbox_vote_txn(db, t, vote) ==
  IF recent_vote(db.checkbox_responses_18, vote.uuid, vote.question_id, t)
  THEN [store |-> db,
        ret |-> [op |-> "submit_checkbox_vote", status |-> "already_voted",
                 http |-> 200]]
  ELSE LET db1 == [db EXCEPT !.users_18 =
                     ensure_user(@, vote.uuid, vote.year_of_birth, vote.referred_by)]
           db2 == [db1 EXCEPT !.checkbox_responses_18 =
                     insert_checkbox_rows(@, vote.question_id, vote.uuid,
                                          vote.option_codes, t)]
           db3 == IF wants_other_row(vote)
                  THEN [db2 EXCEPT !.other_responses_18 =
                          Insert(@, [question_id |-> vote.question_id,
                                     other_text |-> strip(vote.other_text),
                                     uuid |-> vote.uuid, submitted_at |-> t])]
                  ELSE db2
           db4 == [db3 EXCEPT !.user_block_progress_18 =
                     progress_after_vote(db3, vote.uuid, vote.question_id, t)]
       IN [store |-> db4,
           ret |-> [op |-> "submit_checkbox_vote", status |-> "success", http |-> 200]]

submit_checkbox_vote(vote, cap) ==
  Commit(submit_checkbox_vote_txn(Store, now, vote), cap)

----------------------------------------------------------------------------
(* POST /api/other-response *)

\* a handler with the revote guard of the vote handlers, on the free-text rows
submit_other_response_txn_guarded(db, t, response) ==
  IF Truthy(response.uuid)
     /\ \E r \in Rows(db.other_responses_18) :
          /\ r.uuid = response.uuid /\ r.question_id = response.question_id
          /\ InWindow(r.submitted_at, t, QUESTION_COOLDOWN)
  THEN [store |-> db,
        ret |-> [op |-> "submit_other_response", status |-> "already_voted",
                 http |-> 200]]
  ELSE [store |-> [db EXCEPT !.other_responses_18 =
                     Insert(@, [question_id |-> response.question_id,
                                other_text |-> response.other_text,
                                uuid |-> IF Truthy(response.uuid) THEN response.uuid
                                         ELSE NULL,
                                submitted_at |-> t]),
                   !.users_18 = ensure_user(@, response.uuid, response.year_of_birth,
                                            response.referred_by)],
        ret |-> [op |-> "submit_other_response", status |-> "success", http |-> 200]]
submit_other_response_txn(db, t, response) ==
  LET db1 == [db EXCEPT !.users_18 =
                ensure_user(@, response.uuid, response.year_of_birth,
                            response.referred_by)]
      db2 == [db1 EXCEPT !.other_responses_18 =
                Insert(@, [question_id |-> response.question_id,
                           other_text |-> response.other_text,
                           uuid |-> IF Truthy(response.uuid) THEN response.uuid
                                    ELSE NULL,
                           submitted_at |-> t])]
  IN [store |-> db2,
      ret |-> [op |-> "submit_other_response", status |-> "success", http |-> 200]]

submit_other_response(response, cap) ==
  Commit(submit_other_response_txn(Store, now, response), cap)

----------------------------------------------------------------------------
(* GET /api/next-block/{category_id} *)

\* SELECT DISTINCT block FROM questions_18 WHERE category_id = :category_id,
\* without the NULL block
all_blocks_with_null(category_id) ==
  {q.block : q \in {x \in questions_18 : x.category_id = category_id}}
all_blocks(category_id) ==
  {q.block : q \in {x \in questions_18 : x.category_id = category_id /\ x.block # 0}}

\* SELECT block FROM user_block_progress_18 WHERE uuid = :uuid AND category_id = ...
\*   AND completed_at > NOW() - INTERVAL BLOCK_COOLDOWN
cooldown_blocks_inclusive(progress, category_id, uuid, t) ==
  {p.block : p \in {x \in progress : /\ x.uuid = uuid
                                     /\ x.category_id = category_id
                                     /\ x.completed_at >= t - BLOCK_COOLDOWN}}
cooldown_blocks(progress, category_id, uuid, t) ==
  {p.block : p \in {x \in progress : /\ x.uuid = uuid
                                     /\ x.category_id = category_id
                                     /\ InWindow(x.completed_at, t, BLOCK_COOLDOWN)}}

next_block_result(db, t, category_id, uuid) ==
  LET blocks == all_blocks(category_id)
      free == blocks \ cooldown_blocks(db.user_block_progress_18, category_id, uuid, t)
  IN IF blocks = {}
     THEN \* HTTPException(404) is caught by "except Exception" and re-raised as 500
          [op |-> "get_next_block", status |-> "error", http |-> 500, block |-> 0,
           message |-> FALSE]
     ELSE IF free # {}
     THEN [op |-> "get_next_block", status |-> "ok", http |-> 200,
           block |-> CHOOSE b \in free : \A c \in free : b <= c, message |-> FALSE]
     ELSE [op |-> "get_next_block", status |-> "ok", http |-> 200, block |-> 0,
           message |-> TRUE]

get_next_block(category_id, uuid) ==
  /\ ret' = [request |-> [category_id |-> category_id, uuid |-> uuid],
             response |-> next_block_result(Store, now, category_id, uuid),
             op |-> "get_next_block"]
  /\ UNCHANGED <<now, responses_18, checkbox_responses_18, other_responses_18,
                 users_18, user_block_progress_18, txns>>

----------------------------------------------------------------------------
(* GET /api/blocks/{category_id}, /api/start-question/{category_id} and
   /api/questions: lookups in the seeded tables *)

\* The blocks of the category from blocks_18; when there are none, the
\* distinct non-null blocks of its questions; when there are none either,
\* HTTPException(404), which "except Exception" catches and re-raises as 500.
blocks_for_category_result(category_id) ==
  LET listed == {b.block_number : b \in {x \in blocks_18 : x.category_id = category_id}}
      fallback_blocks == {q.block : q \in {x \in questions_18 :
                                             x.category_id = category_id /\ x.block # 0}}
  IN IF listed # {}
     THEN [op |-> "get_blocks_for_category", status |-> "ok", http |-> 200,
           blocks |-> listed]
     ELSE IF fallback_blocks # {}
     THEN [op |-> "get_blocks_for_category", status |-> "ok", http |-> 200,
           blocks |-> fallback_blocks]
     ELSE [op |-> "get_blocks_for_category", status |-> "error", http |-> 500,
           blocks |-> {}]

get_blocks_for_category(category_id) ==
  /\ ret' = [request |-> [category_id |-> category_id],
             response |-> blocks_for_category_result(category_id),
             op |-> "get_blocks_for_category"]
  /\ UNCHANGED <<now, responses_18, checkbox_responses_18, other_responses_18,
                 users_18, user_block_progress_18, txns>>

\* The possible answers: one start question of the category (any one of all
\* start questions for 'all', ORDER BY RANDOM()) or, when there is none,
\* HTTPException(404), which "except HTTPException: raise" lets through.
start_question_results(category_id) ==
  LET found == {q \in questions_18 :
                  /\ q.question_id \in start_questions
                  /\ category_id # ALL => q.category_id = category_id}
  IN IF found = {}
     THEN {[op |-> "get_start_question", status |-> "not_found", http |-> 404,
            question_id |-> NULL]}
     ELSE {[op |-> "get_start_question", status |-> "ok", http |-> 200,
            question_id |-> q.question_id] : q \in found}

get_start_question(category_id) ==
  /\ \E response \in start_question_results(category_id) :
       ret' = [request |-> [category_id |-> category_id],
               response |-> response,
               op |-> "get_start_question"]
  /\ UNCHANGED <<now, responses_18, checkbox_responses_18, other_responses_18,
                 users_18, user_block_progress_18, txns>>

\* The rows of the questions query: the questions joined with their category,
\* of the requested category unless it is 'all', and, when a block is
\* requested, those for whose category blocks_18 has a row with that number.
\* Each entry of the answer carries the requested block.  No row at all is
\* HTTPException(404), let through by "except HTTPException: raise".
questions_result(category_id, block) ==
  LET rows == {q \in questions_18 :
                 /\ q.category_id \in Categories
                 /\ category_id # ALL => q.category_id = category_id
                 /\ block # NoBlock =>
                      \E b \in blocks_18 : /\ b.category_id = q.category_id
                                           /\ b.block_number = block}
  IN IF rows = {}
     THEN [op |-> "get_questions", status |-> "not_found", http |-> 404, out |-> {}]
     ELSE [op |-> "get_questions", status |-> "ok", http |-> 200,
           out |-> {[question_id |-> q.question_id, category_id |-> q.category_id,
                     block |-> block] : q \in rows}]

get_questions(category_id, block) ==
  /\ ret' = [request |-> [category_id |-> category_id, block |-> block],
             response |-> questions_result(category_id, block),
             op |-> "get_questions"]
  /\ UNCHANGED <<now, responses_18, checkbox_responses_18, other_responses_18,
                 users_18, user_block_progress_18, txns>>

----------------------------------------------------------------------------
(* GET /api/questions/{question_id}/results *)

\* Weights are fractions with the denominator Scale, a multiple of every
\* number of rows one user can have.
RECURSIVE Factorial(_)
Factorial(n) == IF n <= 1 THEN 1 ELSE n * Factorial(n - 1)
Scale == Factorial(MaxRows + MaxTallyRows)

\* SELECT check_box FROM questions_18 WHERE question_id = :question_id
is_checkbox(question_id) ==
  \E q \in questions_18 : q.question_id = question_id /\ q.check_box

\* SELECT option_code FROM options_18 WHERE question_id = :question_id
option_codes(question_id) ==
  {o.option_code : o \in {x \in options_18 : x.question_id = question_id}}

\* GROUP BY uuid over checkbox_responses_18: the groups the loop does not skip
\* ("if not user['uuid'] ...: continue")
checkbox_voters(db, question_id) ==
  {r.uuid : r \in {x \in Rows(db.checkbox_responses_18) :
                     x.question_id = question_id /\ Truthy(x.uuid)}}

\* a tally that adds the weight once for each distinct code of the user
codes_of_user_once(db, question_id, uuid, code) ==
  IF \E r \in Rows(db.checkbox_responses_18) :
       r.question_id = question_id /\ r.uuid = uuid /\ r.option_code = code
  THEN 1 ELSE 0

\* a tally that takes n as the number of distinct codes of the user
n_codes_distinct(db, question_id, uuid) ==
  Cardinality({r.option_code : r \in {x \in Rows(db.checkbox_responses_18) :
                 x.question_id = question_id /\ x.uuid = uuid}})

\* user['codes'].split(','): STRING_AGG takes every row of the group, so a
\* code is in the list once for each of its rows, and n = len(codes) is the
\* number of rows
codes_of_user(db, question_id, uuid, code) ==
  copies(db.checkbox_responses_18,
         {r \in Rows(db.checkbox_responses_18) :
            r.question_id = question_id /\ r.uuid = uuid /\ r.option_code = code})
n_codes(db, question_id, uuid) ==
  copies(db.checkbox_responses_18,
         {r \in Rows(db.checkbox_responses_18) :
            r.question_id = question_id /\ r.uuid = uuid})

\* weight = 1.0 / n, added once for each code of the user's list
RECURSIVE user_weights(_, _, _, _)
user_weights(db, question_id, code, voters) ==
  IF voters = {} THEN 0
  ELSE LET u == CHOOSE x \in voters : TRUE
       IN codes_of_user(db, question_id, u, code) * (Scale \div n_codes(db, question_id, u))
          + user_weights(db, question_id, code, voters \ {u})

\* SELECT option_code, COUNT(*) ... WHERE question_id = :question_id
\*   AND (uuid IS NULL OR uuid = '') GROUP BY option_code
anon_count(db, question_id, code) ==
  copies(db.checkbox_responses_18,
         {r \in Rows(db.checkbox_responses_18) :
            r.question_id = question_id /\ ~Truthy(r.uuid) /\ r.option_code = code})

\* SELECT option_code, COUNT(*) FROM responses_18 WHERE question_id = :question_id
\*   GROUP BY option_code
resp_count(db, question_id, code) ==
  copies(db.responses_18,
         {r \in Rows(db.responses_18) :
            r.question_id = question_id /\ r.option_code = code})

\* results_dict, as numerators over Scale
results_dict(db, question_id) ==
  [code \in option_codes(question_id) |->
     IF is_checkbox(question_id)
     THEN user_weights(db, question_id, code, checkbox_voters(db, question_id))
          + Scale * anon_count(db, question_id, code)
     ELSE Scale * resp_count(db, question_id, code)]

\* len(other_responses_18) for the question
other_count(db, question_id) ==
  copies(db.other_responses_18,
         {r \in Rows(db.other_responses_18) : r.question_id = question_id})

\* round(count, 2) of the fraction num / Scale, in hundredths (ties to even)
round2(num) ==
  LET q == (100 * num) \div Scale
      rem == (100 * num) % Scale
  IN IF 2 * rem > Scale THEN q + 1
     ELSE IF 2 * rem = Scale THEN q + (q % 2)
     ELSE q

\* a tally that takes the OTHER count from the OtherResponse rows for every
\* type of question
question_results_other_rows(db, question_id) ==
  [code \in option_codes(question_id) |->
     IF code = "OTHER"
     THEN round2(Scale * other_count(db, question_id))
     ELSE round2(results_dict(db, question_id)[code])]

\* the "count" of each entry of formatted_results["results"], in hundredths
question_results(db, question_id) ==
  [code \in option_codes(question_id) |->
     IF code = "OTHER" /\ ~is_checkbox(question_id)
     THEN round2(Scale * other_count(db, question_id))
     ELSE round2(results_dict(db, question_id)[code])]

\* ORDER BY option_code: the collation order of the codes in use
collation == <<"A", "B", "OTHER", "Z">>

\* [opt['option_code'] for opt in options_18], in the order of the query
option_codes_list(question_id) ==
  SelectSeq(collation, LAMBDA c : c \in option_codes(question_id))

\* a result list that leaves out the options nobody chose
results_list_nonzero(db, question_id) ==
  LET codes == SelectSeq(option_codes_list(question_id),
                         LAMBDA c : question_results(db, question_id)[c] # 0)
  IN [i \in 1..Len(codes) |->
        [code |-> codes[i], count |-> question_results(db, question_id)[codes[i]]]]

\* formatted_results["results"]: one entry for each code of option_codes, in
\* that order ("count" in hundredths)
results_list(db, question_id) ==
  LET codes == option_codes_list(question_id)
  IN [i \in 1..Len(codes) |->
        [code |-> codes[i], count |-> question_results(db, question_id)[codes[i]]]]

\* a query that returns the text of one most recent row only
custom_responses_latest(db, question_id) ==
  LET rows == {r \in Rows(db.other_responses_18) : r.question_id = question_id}
  IN IF rows = {} THEN {<<>>}
     ELSE {<<r.other_text>> :
             r \in {x \in rows : \A y \in rows : x.submitted_at >= y.submitted_at}}

\* ORDER BY submitted_at DESC over a bag of rows: every list of the rows'
\* texts that has the most recent first; rows of equal submitted_at come in
\* any order
RECURSIVE ordered_texts(_)
ordered_texts(rows) ==
  IF rows = EmptyBag THEN {<<>>}
  ELSE UNION {{<<r.other_text>> \o rest :
                 rest \in ordered_texts(rows (-) SetToBag({r}))} :
              r \in {x \in BagToSet(rows) :
                       \A y \in BagToSet(rows) : x.submitted_at >= y.submitted_at}}

\* SELECT other_text FROM other_responses_18 WHERE question_id = :question_id
\*   ORDER BY submitted_at DESC
custom_responses(db, question_id) ==
  ordered_texts([r \in {x \in Rows(db.other_responses_18) :
                          x.question_id = question_id}
                   |-> db.other_responses_18[r]])

get_question_results(question_id) ==
  /\ \E texts \in custom_responses(Store, question_id) :
       ret' = [op |-> "get_question_results", status |-> "ok", http |-> 200,
               question_id |-> question_id,
               results |-> question_results(Store, question_id),
               results_list |-> results_list(Store, question_id),
               custom_responses |-> texts]
  /\ UNCHANGED <<now, responses_18, checkbox_responses_18, other_responses_18,
                 users_18, user_block_progress_18, txns>>

----------------------------------------------------------------------------
(* The clock *)

NoResponse == [op |-> "none", status |-> "none", http |-> 0]

Tick ==
  /\ now < MaxTime
  /\ now' = now + 1
  /\ ret' = NoResponse
  /\ UNCHANGED <<responses_18, checkbox_responses_18, other_responses_18,
                 users_18, user_block_progress_18, txns>>

----------------------------------------------------------------------------
(* Requests in parallel.  Every request runs in a transaction of its own
   connection ("with engine.begin() as conn"); a statement reads what is
   committed when it runs and what its own transaction wrote, and the rows a
   transaction wrote reach the tables when the "with" block ends. *)

\* the connections that serve requests in parallel
Procs == {"p1", "p2"}

\* a connection without an open transaction
Idle == [pc |-> "idle"]

\* the rows written by a transaction that is still open
NoWrites ==
  [responses_18 |-> EmptyBag, checkbox_responses_18 |-> EmptyBag,
   other_responses_18 |-> EmptyBag, users_18 |-> {}, user_block_progress_18 |-> {}]

\* the tables with the rows w on top: what the statements of the transaction
\* that wrote w read, and what the tables hold once it has committed
Visible(db, w) ==
  [responses_18 |-> db.responses_18 (+) w.responses_18,
   checkbox_responses_18 |-> db.checkbox_responses_18 (+) w.checkbox_responses_18,
   other_responses_18 |-> db.other_responses_18 (+) w.other_responses_18,
   users_18 |-> db.users_18 \cup w.users_18,
   user_block_progress_18 |->
     {p \in db.user_block_progress_18 :
        ~\E n \in w.user_block_progress_18 :
           n.uuid = p.uuid /\ n.category_id = p.category_id /\ n.block = p.block}
       \cup w.user_block_progress_18]

\* the table the revote guard of the handler reads
guard_table(db, op) ==
  IF op = "submit_vote" THEN db.responses_18 ELSE db.checkbox_responses_18

\* the number of rows of (uuid, question) in a table
rows_of(table, uuid, qid) ==
  copies(table, {r \in Rows(table) : r.uuid = uuid /\ r.question_id = qid})

\* The first statement of a vote handler: the cooldown query.  A recent row
\* ends the request with "already_voted"; otherwise the transaction stays
\* open, NOW() being the time of its start; seen is the number of rows of
\* (uuid, question) that were committed when the query ran.
\* submit_other_response starts without a cooldown query.
begin(p, op, request) ==
  /\ txns[p].pc = "idle"
  /\ IF op # "submit_other_response"
        /\ recent_vote(guard_table(Store, op), request.uuid, request.question_id, now)
     THEN /\ ret' = [op |-> op, status |-> "already_voted", http |-> 200]
          /\ UNCHANGED txns
     ELSE /\ txns' = [txns EXCEPT ![p] = [pc |-> "guarded", op |-> op,
                                          request |-> request, t |-> now,
                                          seen |-> rows_of(guard_table(Store, op),
                                                           request.uuid,
                                                           request.question_id),
                                          referred_by |-> NULL, w |-> NoWrites]]
          /\ UNCHANGED ret
  /\ UNCHANGED <<now, responses_18, checkbox_responses_18, other_responses_18,
                 users_18, user_block_progress_18>>

\* "if vote.uuid and vote.year_of_birth:" SELECT uuid FROM users_18 WHERE
\* uuid = :uuid
select_user(p) ==
  LET x == txns[p]
      view == Visible(Store, x.w)
  IN /\ x.pc = "guarded"
     /\ txns' = [txns EXCEPT ![p].pc =
                   IF /\ Truthy(x.request.uuid) /\ TruthyInt(x.request.year_of_birth)
                      /\ ~\E u \in view.users_18 : u.uuid = x.request.uuid
                   THEN "user_missing" ELSE "user_done"]
     /\ UNCHANGED <<now, responses_18, checkbox_responses_18, other_responses_18,
                    users_18, user_block_progress_18, ret>>

\* "if vote.referred_by:" SELECT uuid FROM users_18 WHERE uuid = :referrer_uuid
referrer_exists_unverified(users, referred_by) == Truthy(referred_by)
referrer_exists(users, referred_by) ==
  Truthy(referred_by) /\ \E u \in users : u.uuid = referred_by

select_referrer(p) ==
  LET x == txns[p]
      view == Visible(Store, x.w)
  IN /\ x.pc = "user_missing"
     /\ txns' = [txns EXCEPT ![p].pc = "referrer_checked",
                             ![p].referred_by =
                               IF referrer_exists(view.users_18, x.request.referred_by)
                               THEN x.request.referred_by ELSE NULL]
     /\ UNCHANGED <<now, responses_18, checkbox_responses_18, other_responses_18,
                    users_18, user_block_progress_18, ret>>

\* uuid is the key of users_18: an INSERT of a uuid that another open
\* transaction has inserted waits for that transaction to end, and an INSERT
\* of a committed uuid fails
key_held(p, uuid) ==
  \E o \in Procs \ {p} :
    txns[o].pc # "idle" /\ \E u \in txns[o].w.users_18 : u.uuid = uuid

\* the end of a request on an exception: "except Exception" answers 500 and
\* engine.begin() rolls the transaction back
rollback(p) ==
  /\ txns' = [txns EXCEPT ![p] = Idle]
  /\ ret' = [op |-> txns[p].op, status |-> "error", http |-> 500]
  /\ UNCHANGED <<now, responses_18, checkbox_responses_18, other_responses_18,
                 users_18, user_block_progress_18>>

\* INSERT INTO users_18 (uuid, year_of_birth[, referred_by])
insert_user(p) ==
  LET x == txns[p]
  IN /\ x.pc = "referrer_checked"
     /\ ~key_held(p, x.request.uuid)
     /\ IF \E u \in users_18 : u.uuid = x.request.uuid
        THEN rollback(p)
        ELSE /\ txns' = [txns EXCEPT ![p].pc = "user_done",
                                     ![p].w.users_18 =
                                       {[uuid |-> x.request.uuid,
                                         year_of_birth |-> x.request.year_of_birth,
                                         referred_by |-> x.referred_by]}]
             /\ UNCHANGED <<now, responses_18, checkbox_responses_18,
                            other_responses_18, users_18, user_block_progress_18, ret>>

\* the rows the handler inserts after the user block
rows_written(x) ==
  IF x.op = "submit_vote"
  THEN [x.w EXCEPT !.responses_18 = Insert(@, vote_row(x.request, x.t))]
  ELSE IF x.op = "submit_checkbox_vote"
  THEN [x.w EXCEPT
          !.checkbox_responses_18 =
            insert_checkbox_rows(@, x.request.question_id, x.request.uuid,
                                 x.request.option_codes, x.t),
          !.other_responses_18 =
            IF wants_other_row(x.request)
            THEN Insert(@, [question_id |-> x.request.question_id,
                            other_text |-> strip(x.request.other_text),
                            uuid |-> x.request.uuid, submitted_at |-> x.t])
            ELSE @]
  ELSE [x.w EXCEPT
          !.other_responses_18 =
            Insert(@, [question_id |-> x.request.question_id,
                       other_text |-> x.request.other_text,
                       uuid |-> IF Truthy(x.request.uuid) THEN x.request.uuid
                                ELSE NULL,
                       submitted_at |-> x.t])]

\* The inserts of the handler.  submit_vote returns "other_needed" for the
\* code "OTHER" before it inserts, and fails on a code that is no option of
\* the question; submit_other_response has nothing left to do after its insert.
insert_rows(p) ==
  LET x == txns[p]
  IN /\ x.pc = "user_done"
     /\ IF x.op = "submit_vote" /\ x.request.option_code # "OTHER"
           /\ ~option_exists(x.request.question_id, x.request.option_code)
        THEN rollback(p)
        ELSE /\ txns' =
                  [txns EXCEPT
                     ![p].pc = IF x.op = "submit_checkbox_vote"
                                  \/ (x.op = "submit_vote"
                                      /\ x.request.option_code # "OTHER")
                               THEN "inserted" ELSE "written",
                     ![p].w = IF x.op = "submit_vote" /\ x.request.option_code = "OTHER"
                              THEN x.w ELSE rows_written(x)]
             /\ UNCHANGED <<now, responses_18, checkbox_responses_18,
                            other_responses_18, users_18, user_block_progress_18, ret>>

\* the progress row the tail of a vote handler writes: none, or the row of the
\* question's block when the transaction sees every question of it answered
progress_written(x, view) ==
  progress_after_vote([view EXCEPT !.user_block_progress_18 = {}],
                      x.request.uuid, x.request.question_id, x.t)

\* (uuid, category_id, block) is the key of user_block_progress_18: the
\* upsert of a key that another open transaction has written waits for it
progress_held(p, rows) ==
  \E o \in Procs \ {p} :
    /\ txns[o].pc # "idle"
    /\ \E n \in rows, h \in txns[o].w.user_block_progress_18 :
         n.uuid = h.uuid /\ n.category_id = h.category_id /\ n.block = h.block

\* the tail of the vote handlers: all_block_questions_answered and
\* mark_block_completed
record_progress(p) ==
  LET x == txns[p]
      rows == progress_written(x, Visible(Store, x.w))
  IN /\ x.pc = "inserted"
     /\ ~progress_held(p, rows)
     /\ txns' = [txns EXCEPT ![p].pc = "written",
                             ![p].w.user_block_progress_18 = rows]
     /\ UNCHANGED <<now, responses_18, checkbox_responses_18, other_responses_18,
                    users_18, user_block_progress_18, ret>>

\* the status of a request that reaches its return statement
status_returned(x) ==
  IF x.op = "submit_vote" /\ x.request.option_code = "OTHER"
  THEN "other_needed" ELSE "success"

\* the end of the "with" block: the transaction commits and the response is
\* returned
commit(p, cap) ==
  LET x == txns[p]
      db == Visible(Store, x.w)
  IN /\ x.pc = "written"
     /\ RowCount(db) <= cap
     /\ responses_18' = db.responses_18
     /\ checkbox_responses_18' = db.checkbox_responses_18
     /\ other_responses_18' = db.other_responses_18
     /\ users_18' = db.users_18
     /\ user_block_progress_18' = db.user_block_progress_18
     /\ ret' = [op |-> x.op, status |-> status_returned(x), http |-> 200]
     /\ txns' = [txns EXCEPT ![p] = Idle]
     /\ UNCHANGED now

----------------------------------------------------------------------------
(* Requests of the voting scenario: two users and anonymous voters *)

Uuids == {NULL, "", "u1", "u2"}
Users == {"u1", "u2"}
Years == {0, 2008}

\* every request the properties below are evaluated on
AllVotes == [question_id : QuestionIds \cup {"Q9"}, option_code : {"A", "B", "OTHER", "Z"},
             uuid : Uuids, year_of_birth : Years, referred_by : {NULL, "u1", "u9"}]
AllCheckboxVotes ==
  [question_id : QuestionIds \cup {"Q9"},
   option_codes : {<<>>, <<"A">>, <<"Z">>, <<"A", "B">>, <<"A", "A">>, <<"OTHER", "Z">>},
   uuid : Uuids, year_of_birth : Years, other_text : {<<>>, <<" ">>, <<"h", " ">>},
   referred_by : {NULL, "u1", "u9"}]

\* the requests that drive the voting scenario (category 1)
Votes == [question_id : {"Q1", "Q2"}, option_code : {"A"}, uuid : {NULL, "u1", "u2"},
          year_of_birth : {2008}, referred_by : {NULL}]
CheckboxVotes == [question_id : {"Q1", "Q2"}, option_codes : {<<"A">>},
                  uuid : {NULL, "u1", "u2"}, year_of_birth : {2008},
                  other_text : {<<>>}, referred_by : {NULL}]

\* the requests that drive the block scenario (category 2)
BlockVotes == [question_id : {"Q3", "Q4", "Q5"}, option_code : {"A"},
               uuid : {NULL, "u1", "u2"}, year_of_birth : {0}, referred_by : {NULL}]

\* the requests that drive the tally scenario (questions Q1 and Q2)
TallyVotes == [question_id : {"Q1"}, option_code : {"A", "B"}, uuid : {NULL, "u1"},
               year_of_birth : {0}, referred_by : {NULL}]
TallyCheckboxVotes ==
  [question_id : {"Q2"}, option_codes : {<<"A">>, <<"A", "B">>, <<"A", "A", "B">>},
   uuid : {NULL, "", "u1", "u2"}, year_of_birth : {0}, other_text : {<<>>},
   referred_by : {NULL}]
TallyOthers == [question_id : {"Q1"}, other_text : {<<"h">>}, uuid : {NULL},
                year_of_birth : {0}, referred_by : {NULL}]

\* the requests that drive the free-text scenario (questions Q1 and Q2)
OtherVotes == [question_id : {"Q1"}, option_code : {"A", "OTHER"}, uuid : {"u1"},
               year_of_birth : {2008}, referred_by : {NULL}]
OtherResponses == [question_id : {"Q1"}, other_text : {<<"h">>, <<"k">>},
                   uuid : {NULL}, year_of_birth : {0}, referred_by : {NULL}]
OtherCheckboxVotes ==
  [question_id : {"Q2"}, option_codes : {<<"OTHER">>, <<"A", "OTHER">>},
   uuid : {"u1"}, year_of_birth : {0}, other_text : {<<"h">>},
   referred_by : {NULL}]

\* the requests that drive the user scenario: votes with a resolving code or
\* "OTHER", votes with an unknown code (all of them with a user id and a birth
\* year), checkbox votes, and other-responses (the only requests with the
\* birth year 2010)
UserVotes ==
  [question_id : {"Q1"}, option_code : {"A", "OTHER"}, uuid : {"u1", "u2"},
   year_of_birth : {0, 2008}, referred_by : {NULL, "u1"}]
  \cup [question_id : {"Q1"}, option_code : {"Z"}, uuid : {"u1", "u2"},
         year_of_birth : {2008}, referred_by : {NULL, "u1"}]
UserCheckboxVotes ==
  [question_id : {"Q2"}, option_codes : {<<"A">>}, uuid : {"u2"},
   year_of_birth : {2008}, other_text : {<<>>}, referred_by : {"u1", "u9"}]
UserOthers == [question_id : {"Q1"}, other_text : {<<"h">>}, uuid : {"u1"},
               year_of_birth : {2010}, referred_by : {NULL, "u2"}]

\* the requests that drive the code-list scenario: every list with two
\* resolving codes has an unresolvable one between them, and no free text is
\* free of blanks
ListVotes ==
  [question_id : {"Q2"},
   option_codes : {<<"A", "Z", "B">>, <<"Z">>, <<"OTHER", "Z">>, <<"A">>},
   uuid : {NULL, "u1"}, year_of_birth : {2008},
   other_text : {<<>>, <<" ">>, <<" ", "h", " ">>}, referred_by : {NULL}]

Init ==
  /\ now = 0
  /\ responses_18 = EmptyBag
  /\ checkbox_responses_18 = EmptyBag
  /\ other_responses_18 = EmptyBag
  /\ users_18 = {}
  /\ user_block_progress_18 = {}
  /\ ret = NoResponse
  /\ txns = [p \in Procs |-> Idle]

Next ==
  \/ \E vote \in Votes : submit_vote(vote, MaxRows)
  \/ \E vote \in CheckboxVotes : submit_checkbox_vote(vote, MaxRows)
  \/ Tick

Spec == Init /\ [][Next]_vars

NextBlocks ==
  \/ \E vote \in BlockVotes : submit_vote(vote, MaxRows)
  \/ \E c \in Categories, u \in Users : get_next_block(c, u)
  \/ Tick

SpecBlocks == Init /\ [][NextBlocks]_vars

NextTally ==
  \/ \E vote \in TallyVotes : submit_vote(vote, MaxTallyRows)
  \/ \E response \in TallyOthers : submit_other_response(response, MaxTallyRows)
  \/ \E q \in {"Q1"} : get_question_results(q)
  \/ Tick

SpecTally == Init /\ [][NextTally]_vars

NextCheckbox ==
  \/ \E vote \in TallyCheckboxVotes : submit_checkbox_vote(vote, MaxTallyRows)
  \/ \E q \in {"Q2"} : get_question_results(q)
  \/ Tick

SpecCheckbox == Init /\ [][NextCheckbox]_vars

NextOther ==
  \/ \E vote \in OtherVotes : submit_vote(vote, MaxTallyRows)
  \/ \E response \in OtherResponses : submit_other_response(response, MaxTallyRows)
  \/ \E vote \in OtherCheckboxVotes : submit_checkbox_vote(vote, MaxTallyRows)
  \/ \E q \in {"Q1", "Q2"} : get_question_results(q)
  \/ Tick

SpecOther == Init /\ [][NextOther]_vars

NextUsers ==
  \/ \E vote \in UserVotes : submit_vote(vote, MaxRows)
  \/ \E vote \in UserCheckboxVotes : submit_checkbox_vote(vote, MaxRows)
  \/ \E response \in UserOthers : submit_other_response(response, MaxRows)
  \/ Tick

SpecUsers == Init /\ [][NextUsers]_vars

NextLists ==
  \/ \E vote \in ListVotes : submit_checkbox_vote(vote, MaxTallyRows)
  \/ Tick

SpecLists == Init /\ [][NextLists]_vars

\* the requests that drive the lookup scenario
LookupVotes == [question_id : {"Q3", "Q4"}, option_code : {"A"}, uuid : {"u1"},
                year_of_birth : {0}, referred_by : {NULL}]

NextLookup ==
  \/ \E vote \in LookupVotes : submit_vote(vote, MaxRows)
  \/ \E c \in Categories, u \in Users : get_next_block(c, u)
  \/ \E c \in Categories : get_blocks_for_category(c)
  \/ \E c \in Categories \cup {ALL} : get_start_question(c)
  \/ \E c \in Categories \cup {ALL}, b \in Blocks \cup {3} : get_questions(c, b)
  \/ Tick

SpecLookup == Init /\ [][NextLookup]_vars

\* the requests that drive the scenario of a block answered with free text:
\* one user, the two questions of block 1 of category 1; only the votes carry
\* a birth year
OtherBlockVotes == [question_id : {"Q1"}, option_code : {"A", "OTHER"}, uuid : {"u1"},
                    year_of_birth : {2008}, referred_by : {NULL}]
OtherBlockResponses == [question_id : {"Q1"}, other_text : {<<"h">>}, uuid : {"u1"},
                        year_of_birth : {0}, referred_by : {NULL}]
OtherBlockCheckboxVotes ==
  [question_id : {"Q2"}, option_codes : {<<"A">>, <<"OTHER">>}, uuid : {"u1"},
   year_of_birth : {0}, other_text : {<<>>, <<"h">>}, referred_by : {NULL}]

NextOtherBlock ==
  \/ \E vote \in OtherBlockVotes : submit_vote(vote, MaxTallyRows)
  \/ \E response \in OtherBlockResponses : submit_other_response(response, MaxTallyRows)
  \/ \E vote \in OtherBlockCheckboxVotes : submit_checkbox_vote(vote, MaxTallyRows)
  \/ Tick

SpecOtherBlock == Init /\ [][NextOtherBlock]_vars

\* the requests that drive the scenario of votes in parallel: one user
\* answers the two questions of block 1 of category 1; no request carries a
\* birth year, so that no user row is looked up or created
RaceVotes == [question_id : {"Q1"}, option_code : {"A"}, uuid : {"u1"},
              year_of_birth : {0}, referred_by : {NULL}]
RaceCheckboxVotes ==
  [question_id : {"Q2"}, option_codes : {<<"A">>}, uuid : {"u1"},
   year_of_birth : {0}, other_text : {<<>>}, referred_by : {NULL}]

NextRace ==
  \/ \E p \in Procs, vote \in RaceVotes : begin(p, "submit_vote", vote)
  \/ \E p \in Procs, vote \in RaceCheckboxVotes : begin(p, "submit_checkbox_vote", vote)
  \/ \E p \in Procs : select_user(p)
  \/ \E p \in Procs : insert_rows(p)
  \/ \E p \in Procs : record_progress(p)
  \/ \E p \in Procs : commit(p, MaxRows)
  \/ Tick

SpecRace == Init /\ [][NextRace]_vars

\* the requests that drive the scenario of users created in parallel: free
\* texts of two users who name each other, or themselves, as referrer, and a
\* vote that fails after its user row was inserted
RaceUserVotes == [question_id : {"Q1"}, option_code : {"Z"}, uuid : {"u1"},
                  year_of_birth : {2008}, referred_by : {"u2"}]
RaceOthers ==
  { [question_id |-> "Q1", other_text |-> <<"h">>, uuid |-> "u1",
     year_of_birth |-> 2008, referred_by |-> "u2"],
    [question_id |-> "Q1", other_text |-> <<"h">>, uuid |-> "u2",
     year_of_birth |-> 2008, referred_by |-> "u1"],
    [question_id |-> "Q1", other_text |-> <<"h">>, uuid |-> "u1",
     year_of_birth |-> 2008, referred_by |-> "u1"] }

NextRaceUsers ==
  \/ \E p \in Procs, vote \in RaceUserVotes : begin(p, "submit_vote", vote)
  \/ \E p \in Procs, response \in RaceOthers : begin(p, "submit_other_response", response)
  \/ \E p \in Procs : select_user(p)
  \/ \E p \in Procs : select_referrer(p)
  \/ \E p \in Procs : insert_user(p)
  \/ \E p \in Procs : insert_rows(p)
  \/ \E p \in Procs : commit(p, MaxRows)

SpecRaceUsers == Init /\ [][NextRaceUsers]_vars

----------------------------------------------------------------------------
(* Properties *)

\* the request fields that do not decide the outcomes examined below
Refs == {NULL, "u1"}
CodeLists == {<<"A">>, <<"Z">>, <<"A", "B">>, <<"OTHER", "Z">>}
Texts == {<<>>, <<"h", " ">>}

\* A row of the table for (uuid, question) exists whose age is below the cooldown
HasRecentRow(table, uuid, qid) ==
  \E r \in Rows(table) :
    r.uuid = uuid /\ r.question_id = qid /\ now - r.created_at < QUESTION_COOLDOWN

\* The request of uuid on the question passes the revote guard: the identifier
\* is absent, or no row of the table for (uuid, question) is inside the window
PassesGuard(table, uuid, qid) == uuid = NULL \/ ~HasRecentRow(table, uuid, qid)

\* Every question of the block has a row of the user in the table of its type
BlockCovered(db, uuid, category_id, block) ==
  LET qs == {q \in questions_18 : q.category_id = category_id /\ q.block = block}
  IN /\ qs # {}
     /\ \A q \in qs :
          \E r \in (IF q.check_box THEN Rows(db.checkbox_responses_18)
                    ELSE Rows(db.responses_18)) :
            r.uuid = uuid /\ r.question_id = q.question_id

\* C1: a vote (or checkbox vote) of an identified user on a question for which
\* a row of that user younger than the cooldown exists returns "already_voted"
\* as a normal response and leaves the whole store unchanged.
C1_RevoteGuard ==
  \A u \in Users, q \in QuestionIds :
    /\ HasRecentRow(responses_18, u, q) =>
         \A code \in {"A", "B", "OTHER", "Z"}, y \in Years, ref \in Refs :
           submit_vote_txn(Store, now,
                           [question_id |-> q, option_code |-> code, uuid |-> u,
                            year_of_birth |-> y, referred_by |-> ref])
             = [store |-> Store,
                ret |-> [op |-> "submit_vote", status |-> "already_voted",
                         http |-> 200]]
    /\ HasRecentRow(checkbox_responses_18, u, q) =>
         \A codes \in CodeLists, y \in Years, ref \in Refs, text \in Texts :
           submit_checkbox_vote_txn(Store, now,
                                    [question_id |-> q, option_codes |-> codes,
                                     uuid |-> u, year_of_birth |-> y,
                                     other_text |-> text, referred_by |-> ref])
             = [store |-> Store,
                ret |-> [op |-> "submit_checkbox_vote", status |-> "already_voted",
                         http |-> 200]]

\* a vote was just rejected while a row of the past is still inside the window
C1_Witness ==
  /\ ret.op = "submit_vote" /\ ret.status = "already_voted"
  /\ \E r \in Rows(responses_18) :
       r.uuid \in Users /\ r.created_at < now /\ now - r.created_at < QUESTION_COOLDOWN

\* C2: once no row of (user, question) is younger than the cooldown, a vote of
\* the user on the question with a valid code other than OTHER returns
\* "success" and adds exactly one row, which is a row of (user, question).
C2_VoteAfterCooldown ==
  \A u \in Users, q \in QuestionIds :
    ~HasRecentRow(responses_18, u, q) =>
      \A code \in option_codes(q) \ {"OTHER"}, y \in Years :
        LET res == submit_vote_txn(Store, now,
                                   [question_id |-> q, option_code |-> code,
                                    uuid |-> u, year_of_birth |-> y,
                                    referred_by |-> NULL])
            added == res.store.responses_18 (-) responses_18
        IN /\ res.ret.status = "success" /\ res.ret.http = 200
           /\ responses_18 \sqsubseteq res.store.responses_18
           /\ BagCardinality(added) = 1
           /\ \A r \in Rows(added) :
                r.uuid = u /\ r.question_id = q /\ r.option_id = code
                /\ r.created_at = now

\* a second vote of the same user on the same question succeeded, the first
\* one being older than the cooldown
C2_Witness ==
  /\ ret.op = "submit_vote" /\ ret.status = "success"
  /\ \E r1, r2 \in Rows(responses_18) :
       /\ r1.uuid \in Users /\ r2.uuid = r1.uuid /\ r2.question_id = r1.question_id
       /\ r2.created_at = now /\ now - r1.created_at > QUESTION_COOLDOWN

\* C3: all_block_questions_answered is false for a (category, block) without
\* questions and otherwise true exactly when every question of the block has
\* a row of that user in the table of its type.
C3_BlockComplete ==
  \A u \in Users, c \in Categories, b \in {1, 2, 3} :
    all_block_questions_answered(Store, u, c, b) = BlockCovered(Store, u, c, b)

\* the block of category 1 (a single-select and a checkbox question) is
\* complete for a user
C3_Witness ==
  \E u \in Users : all_block_questions_answered(Store, u, 1, 1)

\* C5: a successful vote or checkbox vote of an identified user that leaves
\* every question of the question's block answered leaves a progress row of
\* (user, category, block) stamped with the time of the vote.
C5_CompletionRecorded ==
  \A u \in Users, q \in {x \in questions_18 : x.block # 0} :
    /\ \A code \in option_codes(q.question_id) :
         LET res == submit_vote_txn(Store, now,
                                    [question_id |-> q.question_id,
                                     option_code |-> code, uuid |-> u,
                                     year_of_birth |-> 2008, referred_by |-> NULL])
         IN (res.ret.status = "success"
             /\ BlockCovered(res.store, u, q.category_id, q.block))
            => [uuid |-> u, category_id |-> q.category_id, block |-> q.block,
                completed_at |-> now] \in res.store.user_block_progress_18
    /\ \A codes \in CodeLists :
         LET res == submit_checkbox_vote_txn(Store, now,
                                             [question_id |-> q.question_id,
                                              option_codes |-> codes, uuid |-> u,
                                              year_of_birth |-> 2008,
                                              other_text |-> <<>>,
                                              referred_by |-> NULL])
         IN (res.ret.status = "success"
             /\ BlockCovered(res.store, u, q.category_id, q.block))
            => [uuid |-> u, category_id |-> q.category_id, block |-> q.block,
                completed_at |-> now] \in res.store.user_block_progress_18

\* a checkbox vote has just completed a block and the progress row carries
\* the time of that vote
C5_Witness ==
  /\ ret.op = "submit_checkbox_vote" /\ ret.status = "success"
  /\ \E p \in user_block_progress_18 :
       /\ p.completed_at = now
       /\ BlockCovered(Store, p.uuid, p.category_id, p.block)
       /\ \E r \in Rows(checkbox_responses_18) : r.uuid = p.uuid /\ r.created_at = now

\* C4: the store never holds two progress rows for one (user, category,
\* block), and marking a block completed twice leaves exactly one row for it,
\* stamped with the time of the later call; the other rows are untouched.
C4_MarkIdempotent ==
  /\ \A p1, p2 \in user_block_progress_18 :
       (p1.uuid = p2.uuid /\ p1.category_id = p2.category_id /\ p1.block = p2.block)
         => p1 = p2
  /\ \A u \in Users, c \in Categories, b \in {1, 2} :
       \A t1 \in 0..now :
         LET once == mark_block_completed(user_block_progress_18, u, c, b, t1)
             twice == mark_block_completed(once, u, c, b, now)
             Same(p) == p.uuid = u /\ p.category_id = c /\ p.block = b
         IN /\ {p \in twice : Same(p)}
                 = {[uuid |-> u, category_id |-> c, block |-> b, completed_at |-> now]}
            /\ {p \in twice : ~Same(p)} = {p \in user_block_progress_18 : ~Same(p)}

\* a block was completed, and completed again later by a second vote: its
\* one progress row carries the time of the second vote
C4_Witness ==
  \E p \in user_block_progress_18 :
    /\ Cardinality({x \in user_block_progress_18 :
                      x.uuid = p.uuid /\ x.category_id = p.category_id
                      /\ x.block = p.block}) = 1
    /\ \E r1, r2 \in Rows(responses_18) :
         /\ r1.uuid = p.uuid /\ r2.uuid = p.uuid
         /\ r1.question_id = r2.question_id
         /\ BlockCovered([Store EXCEPT !.responses_18 = SetToBag({r1})],
                         p.uuid, p.category_id, p.block)
         /\ r1.created_at < r2.created_at
         /\ r2.created_at = p.completed_at

\* the non-null block numbers of a category, and "in cooldown"
BlocksOf(category_id) ==
  {b \in {1, 2, 3} : \E q \in questions_18 : q.category_id = category_id /\ q.block = b}
InCooldown(uuid, category_id, block) ==
  \E p \in user_block_progress_18 :
    /\ p.uuid = uuid /\ p.category_id = category_id /\ p.block = block
    /\ now - p.completed_at < BLOCK_COOLDOWN
FreeBlocks(uuid, category_id) ==
  {b \in BlocksOf(category_id) : ~InCooldown(uuid, category_id, b)}

\* C6 as stated: get_next_block returns the smallest block not in cooldown,
\* and block = none with a message exactly when every block of the category
\* is in cooldown for the user.
C6_Original ==
  ret.op = "get_next_block" =>
    LET r == ret.response
        free == FreeBlocks(ret.request.uuid, ret.request.category_id)
    IN /\ free # {} => (r.status = "ok" /\ r.block \in free
                        /\ \A b \in free : r.block <= b)
       /\ (r.status = "ok" /\ r.block = 0 /\ r.message) <=> (free = {})

\* C6 amended: for a category that has at least one block, get_next_block
\* returns the smallest block not in cooldown, and block = none with a message
\* exactly when every block is in cooldown; for a category without blocks it
\* fails with an error instead.
C6_NextBlock ==
  \A c \in Categories, u \in Users :
    LET r == next_block_result(Store, now, c, u)
        free == FreeBlocks(u, c)
    IN IF BlocksOf(c) = {}
       THEN r.status = "error" /\ r.http = 500
       ELSE /\ r.status = "ok" /\ r.http = 200
            /\ free # {} => (r.block \in free /\ ~r.message
                             /\ \A b \in free : r.block <= b)
            /\ (r.block = 0 /\ r.message) <=> (free = {})

\* get_next_block has just answered "no block" with the message: both blocks
\* of the category are in cooldown for the user
C6_Witness ==
  /\ ret.op = "get_next_block"
  /\ ret.response.block = 0 /\ ret.response.message
  /\ Cardinality(BlocksOf(ret.request.category_id)) = 2
  /\ FreeBlocks(ret.request.uuid, ret.request.category_id) = {}

----------------------------------------------------------------------------
(* Properties of the tally of a single-select question *)

RECURSIVE SumCounts(_, _)
SumCounts(counts, codes) ==
  IF codes = {} THEN 0
  ELSE LET c == CHOOSE x \in codes : TRUE
       IN counts[c] + SumCounts(counts, codes \ {c})

\* the Response rows stored for the question
ResponseRows(question_id) ==
  {r \in Rows(responses_18) : r.question_id = question_id}

\* C7 as stated: for a single-select question, the counts returned by
\* get_question_results sum, over all options, to the number of Response rows
\* stored for the question (counts are in hundredths).
C7_Original ==
  (ret.op = "get_question_results" /\ ~is_checkbox(ret.question_id)) =>
    SumCounts(ret.results, option_codes(ret.question_id))
      = 100 * copies(responses_18, ResponseRows(ret.question_id))

\* What the tally of a single-select question sums to: the Response rows that
\* carry an option code (those of identified voters) plus the OtherResponse
\* rows of the question.
C7_TallySum ==
  (ret.op = "get_question_results" /\ ~is_checkbox(ret.question_id)) =>
    SumCounts(ret.results, option_codes(ret.question_id))
      = 100 * ( copies(responses_18,
                       {r \in ResponseRows(ret.question_id) : r.uuid # NULL})
                + copies(other_responses_18,
                         {r \in Rows(other_responses_18) :
                            r.question_id = ret.question_id}) )

\* C8 as stated: for a single-select question and a non-OTHER code c, the
\* count returned by get_question_results equals the number of votes recorded
\* by submit_vote for the question and option c, anonymous votes included.
C8_Original ==
  (ret.op = "get_question_results" /\ ~is_checkbox(ret.question_id)) =>
    \A c \in option_codes(ret.question_id) \ {"OTHER"} :
      ret.results[c]
        = 100 * copies(responses_18,
                       {r \in ResponseRows(ret.question_id) : r.option_id = c})

\* What the count of a non-OTHER code is: the votes recorded for the option by
\* identified voters only; an anonymous vote is stored but never counted.
C8_IdentifiedOnly ==
  (ret.op = "get_question_results" /\ ~is_checkbox(ret.question_id)) =>
    \A c \in option_codes(ret.question_id) \ {"OTHER"} :
      ret.results[c]
        = 100 * copies(responses_18,
                       {r \in ResponseRows(ret.question_id) :
                          r.option_id = c /\ r.uuid # NULL})

----------------------------------------------------------------------------
(* Properties of the tally of a checkbox question.  Weights are the entries of
   results_dict, before the rounding for presentation, as numerators over
   Scale. *)

CheckboxQuestions == {q \in QuestionIds : is_checkbox(q)}

\* the CheckboxResponse rows of a user for a question
UserRows(question_id, uuid) ==
  {r \in Rows(checkbox_responses_18) :
     r.question_id = question_id /\ r.uuid = uuid}

\* the anonymous CheckboxResponse rows of a question
AnonymousRows(question_id) ==
  {r \in Rows(checkbox_responses_18) :
     r.question_id = question_id /\ (r.uuid = NULL \/ r.uuid = "")}

\* the store without the rows in S
Without(S) ==
  [Store EXCEPT !.checkbox_responses_18 =
     [r \in Rows(checkbox_responses_18) \ S |-> checkbox_responses_18[r]]]

\* the store with one copy less of the row r
WithoutOne(r) ==
  [Store EXCEPT !.checkbox_responses_18 = @ (-) SetToBag({r})]

\* what the rows in S add to the weight of a code
Contribution(question_id, S, code) ==
  results_dict(Store, question_id)[code]
    - results_dict(Without(S), question_id)[code]

RECURSIVE TotalContribution(_, _, _)
TotalContribution(question_id, S, codes) ==
  IF codes = {} THEN 0
  ELSE LET c == CHOOSE x \in codes : TRUE
       IN Contribution(question_id, S, c)
          + TotalContribution(question_id, S, codes \ {c})

\* the scenario of the claim: U1 selects two codes in one submission, and
\* three anonymous submissions select the first, the first and the second
ScenarioStore ==
  LET empty == [responses_18 |-> EmptyBag, checkbox_responses_18 |-> EmptyBag,
                other_responses_18 |-> EmptyBag, users_18 |-> {},
                user_block_progress_18 |-> {}]
      v(uuid, codes) == [question_id |-> "Q2", option_codes |-> codes,
                         uuid |-> uuid, year_of_birth |-> 2008,
                         other_text |-> <<>>, referred_by |-> NULL]
      s1 == submit_checkbox_vote_txn(empty, 0, v("u1", <<"A", "B">>)).store
      s2 == submit_checkbox_vote_txn(s1, 0, v(NULL, <<"A">>)).store
      s3 == submit_checkbox_vote_txn(s2, 0, v(NULL, <<"A">>)).store
  IN submit_checkbox_vote_txn(s3, 0, v(NULL, <<"B">>)).store

\* C9: for a checkbox question, every identified user with at least one row
\* contributes a total weight of exactly 1, summed over the options, whatever
\* the number of their rows; every anonymous row contributes exactly 1 to its
\* own option and nothing to the others; the scenario gives 2.5 and 1.5.
C9_CheckboxWeights ==
  /\ \A q \in CheckboxQuestions :
       /\ \A u \in Users :
            UserRows(q, u) # {} =>
              TotalContribution(q, UserRows(q, u), option_codes(q)) = Scale
       /\ \A r \in AnonymousRows(q) : \A c \in option_codes(q) :
            results_dict(Store, q)[c] - results_dict(WithoutOne(r), q)[c]
              = IF c = r.option_code THEN Scale ELSE 0
  /\ question_results(ScenarioStore, "Q2")
       = [c \in {"A", "B", "OTHER"} |->
            IF c = "A" THEN 250 ELSE IF c = "B" THEN 150 ELSE 0]

\* the tally has been returned for a checkbox question on which an identified
\* user has several rows and an anonymous row is stored as well
C9_Witness ==
  /\ ret.op = "get_question_results" /\ is_checkbox(ret.question_id)
  /\ \E u \in Users :
       copies(checkbox_responses_18, UserRows(ret.question_id, u)) >= 2
  /\ AnonymousRows(ret.question_id) # {}

\* the distinct option codes among the rows of a user for a question
DistinctCodes(question_id, uuid) ==
  {r.option_code : r \in UserRows(question_id, uuid)}

----------------------------------------------------------------------------
(* Properties of the free-text ("OTHER") path *)

\* the OtherResponse rows stored for the question
OtherRows(question_id) ==
  {r \in Rows(other_responses_18) : r.question_id = question_id}

ListedTexts(texts) == {texts[i] : i \in 1..Len(texts)}

\* what holds in every state on the free-text path
OtherFlowState ==
  /\ \A q \in QuestionIds, u \in Uuids, y \in Years, ref \in Refs :
       PassesGuard(responses_18, u, q) =>
         LET res == submit_vote_txn(Store, now,
                                    [question_id |-> q, option_code |-> "OTHER",
                                     uuid |-> u, year_of_birth |-> y,
                                     referred_by |-> ref])
         IN /\ res.ret.status = "other_needed" /\ res.ret.http = 200
            /\ res.store.responses_18 = responses_18
  /\ \A q \in {"Q1", "Q2"}, text \in {<<"h">>, <<"k">>}, u \in {NULL, "u1"},
        y \in Years :
       LET res == submit_other_response_txn(Store, now,
                                            [question_id |-> q, other_text |-> text,
                                             uuid |-> u, year_of_birth |-> y,
                                             referred_by |-> NULL])
           added == res.store.other_responses_18 (-) other_responses_18
       IN /\ res.ret.status = "success"
          /\ other_responses_18 \sqsubseteq res.store.other_responses_18
          /\ BagCardinality(added) = 1
          /\ \A r \in Rows(added) : r.question_id = q /\ r.other_text = text
          /\ \A texts \in custom_responses(res.store, q) : text \in ListedTexts(texts)
  /\ ret.op = "get_question_results" =>
       \A r \in OtherRows(ret.question_id) :
         r.other_text \in ListedTexts(ret.custom_responses)

RECURSIVE WeightedTally(_, _, _)
WeightedTally(question_id, code, users) ==
  IF users = {}
  THEN Scale * copies(checkbox_responses_18,
                      {r \in AnonymousRows(question_id) : r.option_code = code})
  ELSE LET u == CHOOSE x \in users : TRUE
           n == copies(checkbox_responses_18, UserRows(question_id, u))
           k == copies(checkbox_responses_18,
                       {r \in UserRows(question_id, u) : r.option_code = code})
       IN (IF n = 0 THEN 0 ELSE (Scale * k) \div n)
          + WeightedTally(question_id, code, users \ {u})

\* C12: the count returned for "OTHER" is the number of OtherResponse rows of
\* the question when it is single-select, and the weighted tally of the code
\* "OTHER" over the CheckboxResponse rows, to the nearest hundredth, when it is
\* a checkbox question, whatever OtherResponse rows exist.
C12_OtherCount ==
  ret.op = "get_question_results" =>
    IF is_checkbox(ret.question_id)
    THEN LET w == WeightedTally(ret.question_id, "OTHER", Users)
             d == 100 * w - ret.results["OTHER"] * Scale
         IN 2 * d <= Scale /\ 2 * d >= -Scale
    ELSE ret.results["OTHER"]
           = 100 * copies(other_responses_18, OtherRows(ret.question_id))

\* the tally of a checkbox question reports 0.5 for "OTHER" while one
\* OtherResponse row of the question is stored
C12_Witness ==
  /\ ret.op = "get_question_results" /\ is_checkbox(ret.question_id)
  /\ ret.results["OTHER"] = 50
  /\ copies(other_responses_18, OtherRows(ret.question_id)) = 1

----------------------------------------------------------------------------
(* Properties of failing votes and of the users table *)

\* the response of submit_vote to an exception of the database driver:
\* "except Exception" answers every exception with status code 500
server_fault == [op |-> "submit_vote", status |-> "error", http |-> 500]

\* C13 as stated: a vote whose code is not "OTHER" and resolves to no option
\* of the question fails with the "invalid option" client error (400), an
\* outcome distinct from that of a server or storage fault.
C13_Original ==
  (ret.op = "submit_vote" /\ ret.status = "error") =>
    (ret.http = 400 /\ ret # server_fault)

\* What a vote with an unresolvable code gets: the outcome of a server fault
\* (500), and no row is written.
C13_InvalidIsServerError ==
  \A q \in QuestionIds \cup {"Q9"}, u \in Uuids, y \in Years, ref \in Refs :
    \A code \in {"A", "B", "Z"} :
      (PassesGuard(responses_18, u, q) /\ ~option_exists(q, code)) =>
        LET res == submit_vote_txn(Store, now,
                                   [question_id |-> q, option_code |-> code,
                                    uuid |-> u, year_of_birth |-> y,
                                    referred_by |-> ref])
        IN res.ret = server_fault /\ res.store.responses_18 = responses_18

\* C14: a vote that fails leaves the whole store as it was before the request;
\* the user row that the request had inserted before failing is not kept.
C14_VoteAtomic ==
  \A q \in {"Q1", "Q9"}, u \in Uuids, y \in Years, ref \in {NULL, "u1"} :
    \A code \in {"A", "Z"} :
      LET res == submit_vote_txn(Store, now,
                                 [question_id |-> q, option_code |-> code,
                                  uuid |-> u, year_of_birth |-> y,
                                  referred_by |-> ref])
      IN res.ret.status = "error" => res.store = Store

\* a vote has just failed and no user row exists; in this scenario every vote
\* with an unresolvable code carries a user id and a birth year
C14_Witness ==
  /\ ret.op = "submit_vote" /\ ret.status = "error"
  /\ \E u \in Users : ~\E row \in users_18 : row.uuid = u
  /\ \A vote \in UserVotes :
       ~option_exists(vote.question_id, vote.option_code) /\ vote.option_code # "OTHER"
         => vote.uuid \in Users /\ vote.year_of_birth # 0

\* the referrer ids of the requests examined: none, a user and a stranger
ReferrerIds == {NULL, "u1", "u9"}

UserExists(uuid) == \E row \in users_18 : row.uuid = uuid

\* the users table after a request with these fields, by the rule of lazy
\* creation
ExpectedUsers(uuid, year_of_birth, referred_by) ==
  IF uuid \notin {NULL, ""} /\ year_of_birth # 0 /\ ~UserExists(uuid)
  THEN users_18 \cup
         {[uuid |-> uuid, year_of_birth |-> year_of_birth,
           referred_by |-> IF referred_by # NULL /\ UserExists(referred_by)
                           THEN referred_by ELSE NULL]}
  ELSE users_18

VoteRequest(q, code, u, y, ref) ==
  [question_id |-> q, option_code |-> code, uuid |-> u, year_of_birth |-> y,
   referred_by |-> ref]
CheckboxRequest(q, codes, u, y, text, ref) ==
  [question_id |-> q, option_codes |-> codes, uuid |-> u, year_of_birth |-> y,
   other_text |-> text, referred_by |-> ref]
OtherRequest(q, text, u, y, ref) ==
  [question_id |-> q, other_text |-> text, uuid |-> u, year_of_birth |-> y,
   referred_by |-> ref]

\* lazy creation in the checkbox and other-response handlers: the users table
\* after the request is the expected one, and an unknown referrer changes
\* nothing in the outcome
LazyUserCheckboxOther ==
  \A q \in {"Q2"}, u \in Uuids, y \in Years, ref \in ReferrerIds :
    /\ \A codes \in {<<"A", "Z">>} :
         PassesGuard(checkbox_responses_18, u, q) =>
           LET res == submit_checkbox_vote_txn(Store, now,
                        CheckboxRequest(q, codes, u, y, <<>>, ref))
           IN /\ res.store.users_18 = ExpectedUsers(u, y, ref)
              /\ (ref # NULL /\ ~UserExists(ref)) =>
                   res = submit_checkbox_vote_txn(Store, now,
                           CheckboxRequest(q, codes, u, y, <<>>, NULL))
    /\ LET res == submit_other_response_txn(Store, now,
                                            OtherRequest(q, <<"h">>, u, y, ref))
       IN /\ res.store.users_18 = ExpectedUsers(u, y, ref)
          /\ (ref # NULL /\ ~UserExists(ref)) =>
               res = submit_other_response_txn(Store, now,
                                               OtherRequest(q, <<"h">>, u, y, NULL))

\* C15 as stated: every vote, checkbox or other-response submission that
\* passes the revote guard creates a user row iff it carries a user id and a
\* birth year and no row with the id exists; the row is linked to the referrer
\* iff the referrer exists; an unknown referrer changes nothing else.
C15_Original ==
  /\ LazyUserCheckboxOther
  /\ \A q \in {"Q1"}, u \in Uuids, y \in Years, ref \in ReferrerIds :
       \A code \in {"A", "OTHER", "Z"} :
         PassesGuard(responses_18, u, q) =>
           LET res == submit_vote_txn(Store, now, VoteRequest(q, code, u, y, ref))
           IN /\ res.store.users_18 = ExpectedUsers(u, y, ref)
              /\ (ref # NULL /\ ~UserExists(ref)) =>
                   res = submit_vote_txn(Store, now, VoteRequest(q, code, u, y, NULL))

\* C15 amended: the rule holds for every checkbox and other-response
\* submission and for every vote that passes the revote guard and does not
\* fail; a vote that fails on an unresolvable option code creates no user row.
C15_LazyUser ==
  /\ LazyUserCheckboxOther
  /\ \A q \in {"Q1"}, u \in Uuids, y \in Years, ref \in ReferrerIds :
       \A code \in {"A", "OTHER", "Z"} :
         PassesGuard(responses_18, u, q) =>
           LET res == submit_vote_txn(Store, now, VoteRequest(q, code, u, y, ref))
           IN /\ res.store.users_18
                   = IF code = "OTHER" \/ option_exists(q, code)
                     THEN ExpectedUsers(u, y, ref) ELSE users_18
              /\ (ref # NULL /\ ~UserExists(ref)) =>
                   res = submit_vote_txn(Store, now, VoteRequest(q, code, u, y, NULL))

\* a user was created with the link to an existing referrer, another one
\* without a link, and a request with an unknown referrer has just succeeded
C15_Witness ==
  /\ \E row \in users_18 : row.uuid = "u2" /\ row.referred_by = "u1"
  /\ \E row \in users_18 : row.uuid = "u1" /\ row.referred_by = NULL
  /\ ret.op = "submit_checkbox_vote" /\ ret.status = "success"

\* no request changes or deletes a row of the users table, nor adds a second
\* row for a user id
UsersKept ==
  /\ \A r1, r2 \in users_18 : r1.uuid = r2.uuid => r1 = r2
  /\ \A q \in {"Q1"}, u \in Users, y \in {2008, 2010}, ref \in ReferrerIds :
       /\ \A code \in {"A", "OTHER"} :
            users_18 \subseteq
              submit_vote_txn(Store, now, VoteRequest(q, code, u, y, ref)).store.users_18
       /\ \A codes \in {<<"A">>} :
            users_18 \subseteq
              submit_checkbox_vote_txn(Store, now,
                CheckboxRequest(q, codes, u, y, <<>>, ref)).store.users_18
       /\ users_18 \subseteq
            submit_other_response_txn(Store, now,
              OtherRequest(q, <<"h">>, u, y, ref)).store.users_18

\* C16: once a user row exists, no operation changes its birth year or its
\* referred_by, and none deletes it: every row of the users table is in the
\* table, unchanged, after every step, and a user id never has two rows.
C16_NoUserUpdate ==
  /\ []UsersKept
  /\ [][users_18 \subseteq users_18']_vars

\* the user u1 has the birth year 2008 and no referrer, although u1 has
\* submitted an other-response since, which in this scenario carries the
\* birth year 2010
C16_Witness ==
  /\ \E row \in users_18 :
       row.uuid = "u1" /\ row.year_of_birth = 2008 /\ row.referred_by = NULL
  /\ \E r \in Rows(other_responses_18) : r.uuid = "u1"
  /\ ret.op = "submit_other_response" /\ ret.status = "success"
  /\ \A response \in UserOthers : response.year_of_birth = 2010

----------------------------------------------------------------------------
(* Properties of anonymous submissions *)

\* the outcome of a request leaves the block-progress rows alone, and changes
\* neither the completion of any block nor the revote guard of any question
\* for the identified users
NoTraceForUsers(res) ==
  /\ res.store.user_block_progress_18 = user_block_progress_18
  /\ \A u \in Users :
       /\ \A c \in Categories, b \in Blocks :
            all_block_questions_answered(res.store, u, c, b)
              = all_block_questions_answered(Store, u, c, b)
       /\ \A q \in QuestionIds :
            /\ recent_vote(res.store.responses_18, u, q, now)
                 = recent_vote(responses_18, u, q, now)
            /\ recent_vote(res.store.checkbox_responses_18, u, q, now)
                 = recent_vote(checkbox_responses_18, u, q, now)

AnonymousVoteOutcome(q, u) ==
  LET res == submit_vote_txn(Store, now, VoteRequest(q, "A", u, 2008, NULL))
  IN res.ret.status # "already_voted" /\ NoTraceForUsers(res)

AnonymousCheckboxOutcome(q, u) ==
  LET res == submit_checkbox_vote_txn(Store, now,
               CheckboxRequest(q, <<"A">>, u, 2008, <<>>, NULL))
  IN res.ret.status # "already_voted" /\ NoTraceForUsers(res)

\* C17 as stated: a vote or checkbox vote without a user identifier (absent or
\* empty) is never rejected as "already_voted", never creates or refreshes a
\* block-progress row, and its rows never complete a block for a user nor make
\* a later identified vote be rejected.
C17_Original ==
  \A q \in {"Q1", "Q2"}, u \in {NULL, ""} :
    AnonymousVoteOutcome(q, u) /\ AnonymousCheckboxOutcome(q, u)

\* What holds: the statement for every vote without an identifier and for
\* every checkbox vote whose identifier is absent; a checkbox vote with the
\* empty identifier leaves no trace for the users either, but it is stored
\* with the empty identifier and is subject to the revote guard.
C17_AbsentId ==
  \A q \in {"Q1", "Q2"} :
    /\ AnonymousVoteOutcome(q, NULL) /\ AnonymousVoteOutcome(q, "")
    /\ AnonymousCheckboxOutcome(q, NULL)
    /\ NoTraceForUsers(submit_checkbox_vote_txn(Store, now,
                         CheckboxRequest(q, <<"A">>, "", 2008, <<>>, NULL)))
    /\ HasRecentRow(checkbox_responses_18, "", q) =>
         submit_checkbox_vote_txn(Store, now,
           CheckboxRequest(q, <<"A">>, "", 2008, <<>>, NULL)).ret.status
             = "already_voted"

----------------------------------------------------------------------------
(* Properties of checkbox submissions *)

\* the rows a checkbox submission is to insert: one for every position of the
\* list whose code is a code of the question
ExpectedCheckboxRows(q, u, codes) ==
  [r \in {[question_id |-> q, option_id |-> codes[i], uuid |-> u,
           option_code |-> codes[i], created_at |-> now] :
            i \in {j \in 1..Len(codes) : codes[j] \in option_codes(q)}}
     |-> Cardinality({i \in 1..Len(codes) : codes[i] = r.option_code})]

\* C18: a checkbox submission that passes the revote guard inserts one row for
\* every submitted code that resolves to an option of the question and none
\* for the others, and returns "success" even when no code resolves; guard and
\* user creation act once for the submission, so all resolving codes of the
\* list get their row.
C18_CheckboxRows ==
  \A q \in {"Q2", "Q9"}, u \in Uuids, y \in Years :
    \A codes \in {<<>>, <<"Z">>, <<"A", "Z", "B">>, <<"A", "A">>, <<"OTHER", "Z">>} :
      PassesGuard(checkbox_responses_18, u, q) =>
        LET res == submit_checkbox_vote_txn(Store, now,
                     CheckboxRequest(q, codes, u, y, <<>>, NULL))
        IN /\ res.ret = [op |-> "submit_checkbox_vote", status |-> "success",
                         http |-> 200]
           /\ checkbox_responses_18 \sqsubseteq res.store.checkbox_responses_18
           /\ res.store.checkbox_responses_18 (-) checkbox_responses_18
                = ExpectedCheckboxRows(q, u, codes)
           /\ res.store.users_18 = ExpectedUsers(u, y, NULL)

\* a submission of the user has just succeeded and left two rows of the same
\* instant, for the codes A and B; in this scenario every list with both codes
\* has an unresolvable code between them
C18_Witness ==
  /\ ret.op = "submit_checkbox_vote" /\ ret.status = "success"
  /\ \E r1, r2 \in Rows(checkbox_responses_18) :
       /\ r1.uuid = "u1" /\ r2.uuid = "u1"
       /\ r1.option_code = "A" /\ r2.option_code = "B"
       /\ r1.created_at = now /\ r2.created_at = now
  /\ \A vote \in ListVotes :
       LET codes == {vote.option_codes[i] : i \in 1..Len(vote.option_codes)}
       IN {"A", "B"} \subseteq codes => "Z" \in codes

\* free texts and what is left of them without the blanks at both ends
TextCases ==
  { [text |-> <<>>, trimmed |-> <<>>],
    [text |-> <<" ">>, trimmed |-> <<>>],
    [text |-> <<" ", "h", " ">>, trimmed |-> <<"h">>],
    [text |-> <<"h", " ", "i">>, trimmed |-> <<"h", " ", "i">>] }

\* C19: a checkbox submission that passes the revote guard writes exactly one
\* OtherResponse row, with the trimmed text, iff "OTHER" is among the
\* submitted codes and the free text is not blank; otherwise it writes none.
C19_CheckboxOtherRow ==
  \A q \in {"Q2"}, u \in {NULL, "u1"}, case \in TextCases :
    \A codes \in {<<>>, <<"A">>, <<"OTHER">>, <<"A", "OTHER">>, <<"Z">>} :
      PassesGuard(checkbox_responses_18, u, q) =>
        LET res == submit_checkbox_vote_txn(Store, now,
                     CheckboxRequest(q, codes, u, 2008, case.text, NULL))
            added == res.store.other_responses_18 (-) other_responses_18
        IN /\ other_responses_18 \sqsubseteq res.store.other_responses_18
           /\ IF (\E i \in 1..Len(codes) : codes[i] = "OTHER") /\ case.trimmed # <<>>
              THEN added = SetToBag({[question_id |-> q, other_text |-> case.trimmed,
                                      uuid |-> u, submitted_at |-> now]})
              ELSE added = EmptyBag

\* a checkbox submission has just written an OtherResponse row with the text
\* "h"; in this scenario no request carries that text without blanks around it
C19_Witness ==
  /\ ret.op = "submit_checkbox_vote" /\ ret.status = "success"
  /\ \E r \in Rows(other_responses_18) :
       r.other_text = <<"h">> /\ r.submitted_at = now
  /\ \A vote \in ListVotes : vote.other_text # <<"h">>

----------------------------------------------------------------------------
(* Properties of the list of results *)

\* the ascending order of the option codes
CodeBefore(a, b) ==
  <<a, b>> \in {<<"A", "B">>, <<"A", "OTHER">>, <<"A", "Z">>, <<"B", "OTHER">>,
                <<"B", "Z">>, <<"OTHER", "Z">>}

\* C20: the results have exactly one entry for every option defined on the
\* question, the options with a zero count and "OTHER" included, nothing
\* else, and the entries are in ascending order of option code.
C20_ResultEntries ==
  ret.op = "get_question_results" =>
    LET entries == ret.results_list
    IN /\ {entries[i].code : i \in 1..Len(entries)} = option_codes(ret.question_id)
       /\ Len(entries) = Cardinality(option_codes(ret.question_id))
       /\ \A i, j \in 1..Len(entries) :
            i < j => CodeBefore(entries[i].code, entries[j].code)
       /\ \A i \in 1..Len(entries) :
            entries[i].count = ret.results[entries[i].code]

\* the results list A, B and OTHER in this order, B with a zero count and A
\* with votes
C20_Witness ==
  /\ ret.op = "get_question_results" /\ Len(ret.results_list) = 3
  /\ ret.results_list[1].code = "A" /\ ret.results_list[1].count > 0
  /\ ret.results_list[2].code = "B" /\ ret.results_list[2].count = 0
  /\ ret.results_list[3].code = "OTHER"


----------------------------------------------------------------------------
(* Properties of the lookups in the seeded tables *)

\* the request found nothing: the category has no block (in blocks_18 or
\* among its questions), or no start question
NothingFound(r) ==
  \/ /\ r.op \in {"get_next_block", "get_blocks_for_category"}
     /\ BlocksOf(r.request.category_id) = {}
     /\ ~\E b \in blocks_18 : b.category_id = r.request.category_id
  \/ /\ r.op = "get_start_question"
     /\ ~\E q \in questions_18 :
           /\ q.question_id \in start_questions
           /\ r.request.category_id # ALL => q.category_id = r.request.category_id

\* C21 as stated: get_next_block and get_blocks_for_category on a category
\* without blocks, and get_start_question when no start question matches,
\* fail with the not-found outcome (404), distinct from a server fault (500).
C21_Original ==
  (ret.op \in {"get_next_block", "get_blocks_for_category", "get_start_question"}
     /\ NothingFound(ret)) =>
    (ret.response.http = 404 /\ ret.response.status = "not_found")


\* C30 as stated: get_questions with a category and a block returns exactly
\* the questions of the category that belong to the block, each labelled with
\* the block; a question of the category assigned to another block is never
\* returned.
C30_Original ==
  (ret.op = "get_questions" /\ ret.response.status = "ok"
     /\ ret.request.category_id # ALL /\ ret.request.block # NoBlock) =>
    /\ {e.question_id : e \in ret.response.out} =
         {q.question_id : q \in {x \in questions_18 :
                                   /\ x.category_id = ret.request.category_id
                                   /\ x.block = ret.request.block}}
    /\ \A e \in ret.response.out : e.block = ret.request.block


----------------------------------------------------------------------------
(* Properties of the progress rows *)

\* the progress rows other than the one of (user, category, block)
OtherProgress(progress, uuid, category_id, block) ==
  {p \in progress : ~(p.uuid = uuid /\ p.category_id = category_id /\ p.block = block)}

\* C23 as stated: the progress rows are upserted only when a vote newly
\* completes the block; a re-vote after the cooldown on a block that is
\* already complete leaves the completion timestamp unchanged.
C23_Original ==
  [][\A p \in user_block_progress_18 : p \in user_block_progress_18']_vars

\* C23 amended: a vote changes the progress rows only when it succeeds, is
\* identified and leaves every question of the question's block answered; it
\* then sets the completion timestamp of (user, category, block) to the time
\* of the vote, also when the block was complete before (a re-vote after the
\* cooldown refreshes the timestamp), and leaves the other rows as they are.
C23_ProgressUpsert ==
  \A u \in {NULL, "u1", "u2"}, q \in questions_18 :
    LET res == submit_vote_txn(Store, now,
                               [question_id |-> q.question_id, option_code |-> "A",
                                uuid |-> u, year_of_birth |-> 0,
                                referred_by |-> NULL])
    IN IF /\ res.ret.status = "success" /\ u # NULL /\ q.block # 0
          /\ BlockCovered(res.store, u, q.category_id, q.block)
       THEN res.store.user_block_progress_18 =
              OtherProgress(user_block_progress_18, u, q.category_id, q.block)
                \cup {[uuid |-> u, category_id |-> q.category_id,
                       block |-> q.block, completed_at |-> now]}
       ELSE res.store.user_block_progress_18 = user_block_progress_18

\* a user has just voted again, after the cooldown, on the one question of a
\* block completed earlier, and the progress row carries the time of the
\* re-vote
C23_Witness ==
  /\ ret.op = "submit_vote" /\ ret.status = "success"
  /\ \E p \in user_block_progress_18, r1, r2 \in Rows(responses_18) :
       /\ p.completed_at = now
       /\ r1.uuid = p.uuid /\ r2.uuid = p.uuid
       /\ r1.question_id = r2.question_id
       /\ r2.created_at = now /\ r1.created_at <= now - QUESTION_COOLDOWN
       /\ \A q \in questions_18 :
            (q.category_id = p.category_id /\ q.block = p.block)
              => q.question_id = r1.question_id


\* C24 as stated: after a user completes block k of a category, get_next_block
\* for the category and the user does not return a block number above k until
\* the block cooldown since the completion has elapsed.
C24_Original ==
  (ret.op = "get_next_block" /\ ret.response.status = "ok") =>
    \A p \in user_block_progress_18 :
      (/\ p.uuid = ret.request.uuid /\ p.category_id = ret.request.category_id
       /\ now - p.completed_at < BLOCK_COOLDOWN)
        => ~(ret.response.block > p.block)

\* C24 amended: the cooldown withholds the completed block, not the blocks
\* above it.  While the cooldown since the completion of block k runs,
\* get_next_block does not return k (it returns the smallest block that is not
\* in cooldown, which may be above k); once the cooldown has elapsed it
\* returns k again as soon as every block below k is in cooldown.
C24_CompletedBlockWithheld ==
  \A c \in Categories, u \in Users :
    \A p \in {x \in user_block_progress_18 : x.uuid = u /\ x.category_id = c} :
      LET r == next_block_result(Store, now, c, u)
      IN /\ now - p.completed_at < BLOCK_COOLDOWN => r.block # p.block
         /\ (/\ now - p.completed_at >= BLOCK_COOLDOWN
             /\ \A b \in BlocksOf(c) : b < p.block => InCooldown(u, c, b))
              => r.block = p.block

\* get_next_block has just offered block 2 to a user who completed block 1
\* less than the cooldown ago
C24_Witness ==
  /\ ret.op = "get_next_block" /\ ret.response.block = 2
  /\ \E p \in user_block_progress_18 :
       /\ p.uuid = ret.request.uuid /\ p.category_id = ret.request.category_id
       /\ p.block = 1 /\ now - p.completed_at < BLOCK_COOLDOWN


----------------------------------------------------------------------------
(* Properties of the free-text path without a Response row *)

C29_OtherNotCounted ==
  \A u \in Users, q \in {x \in questions_18 : ~x.check_box /\ x.block # 0} :
    (~\E r \in Rows(responses_18) : r.uuid = u /\ r.question_id = q.question_id) =>
      /\ ~all_block_questions_answered(Store, u, q.category_id, q.block)
      /\ ~\E p \in user_block_progress_18 :
            p.uuid = u /\ p.category_id = q.category_id /\ p.block = q.block
      /\ LET sel == submit_vote_txn(Store, now,
                                    [question_id |-> q.question_id,
                                     option_code |-> "OTHER", uuid |-> u,
                                     year_of_birth |-> 2008, referred_by |-> NULL])
             res == submit_other_response_txn(sel.store, now,
                                              [question_id |-> q.question_id,
                                               other_text |-> <<"h">>, uuid |-> u,
                                               year_of_birth |-> 0,
                                               referred_by |-> NULL])
         IN /\ sel.ret.status = "other_needed"
            /\ res.ret.status = "success"
            /\ ~all_block_questions_answered(res.store, u, q.category_id, q.block)
            /\ res.store.user_block_progress_18 = user_block_progress_18

\* a user selected "OTHER" for Q1 (the request created the user row), gave the
\* free text and answered Q2, the other question of the block, with a checkbox
\* vote: the block is not complete and has no progress row
C29_Witness ==
  /\ \E usr \in users_18 : usr.uuid = "u1" /\ usr.year_of_birth = 2008
  /\ \E r \in Rows(other_responses_18) : r.uuid = "u1" /\ r.question_id = "Q1"
  /\ \E r \in Rows(checkbox_responses_18) : r.uuid = "u1" /\ r.question_id = "Q2"
  /\ ~\E r \in Rows(responses_18) : r.uuid = "u1" /\ r.question_id = "Q1"
  /\ ~all_block_questions_answered(Store, "u1", 1, 1)
  /\ user_block_progress_18 = {}


----------------------------------------------------------------------------
(* Properties of requests in parallel *)

\* two rows (or two copies of one row) of one identified user and one
\* question, closer to each other than the question cooldown
Close(r1, r2) ==
  /\ r1.uuid # NULL /\ r1.uuid = r2.uuid /\ r1.question_id = r2.question_id
  /\ r1.created_at - r2.created_at < QUESTION_COOLDOWN
  /\ r2.created_at - r1.created_at < QUESTION_COOLDOWN

\* connection p commits a vote in this step
Commits(p) ==
  /\ txns[p].pc = "written" /\ txns'[p].pc = "idle"
  /\ txns[p].op = "submit_vote" /\ responses_18' # responses_18

\* C22: two votes of one identified user on one question can both pass the
\* cooldown check before either commits, and then both rows are stored,
\* closer to each other than the cooldown.  A vote stores a row that close to
\* a stored row only when a row of the (user, question) was committed between
\* its cooldown check and its commit; with votes executed one at a time
\* nothing is committed in between.
C22_RaceOnly ==
  [][\A p \in Procs :
       (Commits(p) /\ \E r \in Rows(txns[p].w.responses_18), c \in Rows(responses_18) :
                        Close(r, c))
         => rows_of(responses_18, txns[p].request.uuid, txns[p].request.question_id)
              > txns[p].seen]_vars

\* the second of two votes of u1 on Q1 has just returned "success", and the
\* two rows are less than the cooldown apart
C22_Witness ==
  /\ ret.op = "submit_vote" /\ ret.status = "success"
  /\ \E r1, r2 \in Rows(responses_18) :
       /\ Close(r1, r2)
       /\ r1 # r2 \/ CopiesIn(r1, responses_18) = 2


\* C25 as stated: block completion is never lost under parallel requests.
\* Once no transaction is open, a user who has a matching vote row for every
\* question of a block has a progress row for the block, also when the last
\* two missing questions were answered by two transactions in parallel.
C25_Original ==
  (\A p \in Procs : txns[p].pc = "idle") =>
    \A u \in Users, q \in questions_18 :
      BlockCovered(Store, u, q.category_id, q.block) =>
        \E row \in user_block_progress_18 :
          row.uuid = u /\ row.category_id = q.category_id /\ row.block = q.block


\* C26: the progress rows are sound in every reachable state, whatever
\* requests ran in parallel: the block of a progress row has at least one
\* question, and the user of the row has a matching vote row for every
\* question of the block.
C26_ProgressSound ==
  \A row \in user_block_progress_18 :
    /\ \E q \in questions_18 : q.category_id = row.category_id /\ q.block = row.block
    /\ \A q \in questions_18 :
         (q.category_id = row.category_id /\ q.block = row.block) =>
           \E r \in Rows(IF q.check_box THEN checkbox_responses_18 ELSE responses_18) :
             r.uuid = row.uuid /\ r.question_id = q.question_id

\* the block of two questions has a progress row, written by a vote that
\* committed after the vote on the other question
C26_Witness ==
  /\ \A p \in Procs : txns[p].pc = "idle"
  /\ \E row \in user_block_progress_18 :
       /\ Cardinality({q \in questions_18 :
                         q.category_id = row.category_id /\ q.block = row.block}) = 2
       /\ \E r \in Rows(responses_18), c \in Rows(checkbox_responses_18) :
            r.uuid = row.uuid /\ c.uuid = row.uuid


----------------------------------------------------------------------------
(* Properties of the referral links *)

\* the user rows reachable from a user row by following referred_by at most
\* three times (there are at most two user ids in the requests)
Referrer(S) == {v \in users_18 : \E u \in S : u.referred_by = v.uuid}
Ancestors(u) ==
  Referrer({u}) \cup Referrer(Referrer({u})) \cup Referrer(Referrer(Referrer({u})))

\* every link points to another user row, no row is its own ancestor, and
\* no user id has two rows
WellFounded ==
  /\ \A u \in users_18 :
       /\ u.referred_by # NULL =>
            (u.referred_by # u.uuid /\ \E v \in users_18 : v.uuid = u.referred_by)
       /\ u \notin Ancestors(u)
  /\ \A u, v \in users_18 : u.uuid = v.uuid => u = v

\* C27: the referral links are well-founded, also when users are created by
\* requests in parallel: the referred_by of every user row is unset or the id
\* of a user row that was stored before the referring row was; no row refers
\* to itself, to a missing row, or back to itself through other rows; a
\* stored row never changes.
C27_ReferralWellFounded ==
  /\ []WellFounded
  /\ [][/\ users_18 \subseteq users_18'
        /\ \A u \in users_18' \ users_18 :
             u.referred_by # NULL => \E v \in users_18 : v.uuid = u.referred_by]_vars

\* two users were created by requests that named each other as referrer, and
\* no transaction is open: one of them is linked to the other, who has no link
C27_Witness ==
  /\ \A p \in Procs : txns[p].pc = "idle"
  /\ \E u, v \in users_18 :
       /\ u.uuid = "u1" /\ v.uuid = "u2"
       /\ (u.referred_by = "u2" /\ v.referred_by = NULL)
          \/ (v.referred_by = "u1" /\ u.referred_by = NULL)

====
